---- MODULE Spec2Model ----
(***************************************************************************)
(* s3p: a caching reverse proxy for S3.  This module models the cache      *)
(* middleware (CacheLayer), its key construction, its per-item expiration  *)
(* policy, the store it is built on and its invalidation worker.           *)
(*                                                                         *)
(* Conventions.  Option<T> is a sequence: <<>> is None and <<x>> is        *)
(* Some(x).  A string is a sequence of one-character strings, so that      *)
(* format!() is concatenation and two different inputs may print alike.    *)
(* Time is a counter of ticks shared by SystemTime::now() and the store's  *)
(* clock; durations are counted in the same ticks.                         *)
(***************************************************************************)
EXTENDS Integers, Sequences, FiniteSets, TLC

VARIABLES
    config,     \* CacheLayer.config: CacheMiddlewareConfig, fixed at construction
    cache,      \* CacheLayer.cache: key -> stored entry (the store's map)
    dirty,      \* the store has writes its housekeeping has not applied yet
    now,        \* the clock
    rq,         \* per client slot: the position of its CacheLayer.call
    calls,      \* number of CacheLayer.call started so far
    chan,       \* the worker's broadcast receiver: events not yet received
    worker,     \* the invalidation worker task: "none" | "running" | "panicked"
    handlers,   \* event handlers running inside the worker (for_each_concurrent)
    published,  \* number of events published so far
    processed,  \* object triples invalidated by the worker and not requested since
    kin,        \* key construction: the two requests under comparison
    kout,       \* key construction: their cache intents
    pl,         \* the middleware chains under comparison and their outcomes
    route,      \* the router: the request resolved last and its resolution
    wire,       \* the front server: what the pipeline returned and what was written
    hook,       \* the webhook: the request served last, its event and its answer
    closed,     \* the broadcast channel is closed
    srv,        \* the front server, its webhook and the stop() that ends them
    subs,       \* subscriptions: the abort handle of each stage and the live workers
    env,        \* a request envelope: its operation tag and its decoded-input cell
    sent,       \* the upstream client: the request sent last and what came of it
    fs          \* the configuration file: the path's state, the arguments, the outcome

vars == <<config, cache, dirty, now, rq, calls, chan, worker, handlers,
          published, processed, kin, kout, pl, route, wire, hook,
          closed, srv, subs, env, sent, fs>>

\* The variables of the processes around the cache layer.
SysVars == <<closed, srv, subs, env, sent, fs>>

\* The processes around the cache layer after construction: the channel is
\* open, the servers run, nothing is subscribed, no envelope is under way,
\* nothing was sent upstream and the configuration was not resolved.
SysInit ==
    /\ closed = FALSE
    /\ srv = <<>>
    /\ subs = <<>>
    /\ env = <<>>
    /\ sent = <<>>
    /\ fs = <<>>

---------------------------------------------------------------------------
(* Bounds of the model                                                     *)

MaxTime == 2
MaxCalls == 3
MaxEvents == 1
WeightBits == 2

---------------------------------------------------------------------------
(* Option and string helpers                                               *)

Some(x) == <<x>>
IsSome(o) == o # <<>>
OptOr(a, b) == IF a # <<>> THEN a ELSE b
UnwrapOrEmpty(o) == IF o = <<>> THEN <<>> ELSE o[1]
Min(a, b) == IF a <= b THEN a ELSE b

RECURSIVE SumOver(_, _)
SumOver(S, f) ==
    IF S = {} THEN 0
    ELSE LET x == CHOOSE y \in S : TRUE IN f[x] + SumOver(S \ {x}, f)

---------------------------------------------------------------------------
(* The request envelope and the decoding of its input                       *)

\* Query parameters and headers the decoded inputs of the cached operations read.
QNames == {"versionId", "partNumber", "prefix", "delimiter", "max-keys",
           "start-after", "key-marker"}
HNames == {"range", "x-amz-expected-bucket-owner", "if-none-match", "etag"}

NoQs == [n \in QNames |-> <<>>]
NoHeaders == [n \in HNames |-> <<>>]

\* Request plus its S3Extension: the operation tag set by the front server, the
\* parsed path, the ordered query set and the credentials.
MkRequest(op, bucket, key, qs, headers, credentials) ==
    [op |-> op, s3_path |-> [bucket |-> bucket, key |-> key], qs |-> Some(qs),
     headers |-> headers, credentials |-> credentials]

\* S3RequestExt::try_as_s3_request: a metadata-only s3s request.  Headers, path
\* and credentials are cloned; qs, multipart and vec_stream are left None.
TryAsS3Request(req) ==
    [headers |-> req.headers,
     s3ext |-> [s3_path |-> req.s3_path, qs |-> <<>>,
                credentials |-> req.credentials]]

\* S3Extension into s3s::http::S3Extensions, as the upstream client converts the
\* envelope it forwards: every field, qs included, is moved over.
IntoS3Request(req) ==
    [headers |-> req.headers,
     s3ext |-> [s3_path |-> req.s3_path, qs |-> req.qs,
                credentials |-> req.credentials]]

\* http::parse_opt_query(req, name) of the generated deserialize_http: the value
\* of the query parameter in the request's ordered query set, None without one.
ParseOptQuery(s3req, name) ==
    IF s3req.s3ext.qs = <<>> THEN <<>> ELSE s3req.s3ext.qs[1][name]

\* http::parse_opt_header(req, name)
ParseOptHeader(s3req, name) == s3req.headers[name]

\* A Range header parses when it starts with the bytes unit.
RangeParses(v) == v = <<>> \/ (Len(v[1]) > 0 /\ v[1][1] = "bytes=")

ObjectOps == {"GetObject", "HeadObject"}
ListOps == {"ListObjects", "ListObjectsV2", "ListObjectVersions"}
BucketOwnerOps == {"HeadObject", "HeadBucket"} \cup ListOps

\* Op::Input::try_from(&mut s3s::http::Request) followed by split_metadata: the
\* generated deserialize_http reads bucket and key from the path, each query
\* field with parse_opt_query and each header field with parse_opt_header.
\* None when a field does not parse.
DecodeInput(op, s3req) ==
    LET q(name) == ParseOptQuery(s3req, name)
        h(name) == ParseOptHeader(s3req, name)
    IN  IF op \in ObjectOps /\ ~RangeParses(h("range")) THEN <<>>
        ELSE Some(
          [bucket |-> s3req.s3ext.s3_path.bucket,
           key |-> UnwrapOrEmpty(s3req.s3ext.s3_path.key),
           version_id |-> IF op \in ObjectOps THEN q("versionId") ELSE <<>>,
           part_number |-> IF op \in ObjectOps THEN q("partNumber") ELSE <<>>,
           range |-> IF op \in ObjectOps THEN h("range") ELSE <<>>,
           expected_bucket_owner |->
               IF op \in BucketOwnerOps THEN h("x-amz-expected-bucket-owner")
               ELSE <<>>,
           prefix |-> IF op \in ListOps THEN q("prefix") ELSE <<>>,
           delimiter |-> IF op \in ListOps THEN q("delimiter") ELSE <<>>,
           max_keys |-> IF op \in ListOps THEN q("max-keys") ELSE <<>>,
           start_after |-> IF op = "ListObjectsV2" THEN q("start-after") ELSE <<>>,
           key_marker |-> IF op = "ListObjectVersions" THEN q("key-marker")
                          ELSE <<>>])

\* S3RequestExt::try_get_input: decode the metadata-only copy of the request.
TryGetInput(op, req) == DecodeInput(op, TryAsS3Request(req))

---------------------------------------------------------------------------
(* Cache keys                                                               *)

Sep == <<",", " ">>

\* impl From<&KeyData> for Key: the format! strings.
AsKey(kd) ==
    CASE kd.kind = "GetObject" ->
           <<"GetObject", " ">> \o kd.bucket \o Sep \o kd.object \o Sep
               \o kd.version_id
      [] kd.kind = "HeadObject" ->
           <<"HeadObject", " ">> \o kd.bucket \o Sep \o kd.object \o Sep
               \o kd.version_id
      [] kd.kind = "ObjectList" ->
           <<"ObjectList", " ">> \o kd.bucket \o Sep
               \o UnwrapOrEmpty(kd.prefix) \o Sep \o UnwrapOrEmpty(kd.delim)
      [] kd.kind = "ObjectVersionList" ->
           <<"ObjectVersionList", " ">> \o kd.bucket \o Sep
               \o UnwrapOrEmpty(kd.prefix) \o Sep \o UnwrapOrEmpty(kd.delim)
      [] kd.kind = "Bucket" -> <<"Bucket", " ">> \o kd.bucket
      [] kd.kind = "BucketList" -> <<"BucketList">>

ObjectKeyData(kind, bucket, object, version_id) ==
    [kind |-> kind, bucket |-> bucket, object |-> object,
     version_id |-> version_id]

ListKeyData(kind, bucket, prefix, delim) ==
    [kind |-> kind, bucket |-> bucket, prefix |-> prefix, delim |-> delim]

\* CacheIntent::new(key).time_to_live(ttl).time_to_idle(tti)
CacheIntent(key, op_config) ==
    Some([key |-> key, ttl |-> op_config.ttl, tti |-> op_config.tti])

---------------------------------------------------------------------------
(* CacheLogic::make_cache_intent, one per cached operation                  *)

GetObjectIntentMutant(req, cfg) ==
    LET op_config == cfg.ops.get_object
        des == TryGetInput("GetObject", req)
    IN  IF ~op_config.enabled THEN <<>>
        ELSE IF des = <<>> THEN <<>>
        ELSE CacheIntent(
               AsKey(ObjectKeyData("GetObject", des[1].bucket, des[1].key,
                                   UnwrapOrEmpty(des[1].version_id))),
               op_config)
GetObjectIntent(req, cfg) ==
    LET op_config == cfg.ops.get_object
        des == TryGetInput("GetObject", req)
    IN  IF ~op_config.enabled THEN <<>>
        ELSE IF des = <<>> THEN <<>>
        ELSE IF IsSome(des[1].range) \/ IsSome(des[1].part_number) THEN <<>>
        ELSE CacheIntent(
               AsKey(ObjectKeyData("GetObject", des[1].bucket, des[1].key,
                                   UnwrapOrEmpty(des[1].version_id))),
               op_config)

HeadObjectIntent(req, cfg) ==
    LET op_config == cfg.ops.head_object
        des == TryGetInput("HeadObject", req)
    IN  IF ~op_config.enabled THEN <<>>
        ELSE IF des = <<>> THEN <<>>
        ELSE IF IsSome(des[1].expected_bucket_owner) \/ IsSome(des[1].range)
        THEN <<>>
        ELSE CacheIntent(
               AsKey(ObjectKeyData("HeadObject", des[1].bucket, des[1].key,
                                   UnwrapOrEmpty(des[1].version_id))),
               op_config)

ListObjectsIntent(req, cfg) ==
    LET op_config == cfg.ops.list_objects
        des == TryGetInput("ListObjects", req)
    IN  IF ~op_config.enabled THEN <<>>
        ELSE IF des = <<>> THEN <<>>
        ELSE IF IsSome(des[1].expected_bucket_owner) THEN <<>>
        ELSE CacheIntent(
               AsKey(ListKeyData("ObjectList", des[1].bucket, des[1].prefix,
                                 des[1].delimiter)),
               op_config)

ListObjectsV2IntentMutant(req, cfg) ==
    LET op_config == cfg.ops.list_object_versions
        des == TryGetInput("ListObjectsV2", req)
    IN  IF ~op_config.enabled THEN <<>>
        ELSE IF des = <<>> THEN <<>>
        ELSE IF \/ IsSome(des[1].expected_bucket_owner)
                \/ IsSome(des[1].max_keys)
                \/ IsSome(des[1].start_after)
        THEN <<>>
        ELSE CacheIntent(
               AsKey(ListKeyData("ObjectList", des[1].bucket, des[1].prefix,
                                 <<>>)),
               op_config)

ListObjectsV2Intent(req, cfg) ==
    LET op_config == cfg.ops.list_objects
        des == TryGetInput("ListObjectsV2", req)
    IN  IF ~op_config.enabled THEN <<>>
        ELSE IF des = <<>> THEN <<>>
        ELSE IF \/ IsSome(des[1].expected_bucket_owner)
                \/ IsSome(des[1].max_keys)
                \/ IsSome(des[1].start_after)
        THEN <<>>
        ELSE CacheIntent(
               AsKey(ListKeyData("ObjectList", des[1].bucket, des[1].prefix,
                                 <<>>)),
               op_config)

ListObjectVersionsIntent(req, cfg) ==
    LET op_config == cfg.ops.list_object_versions
        des == TryGetInput("ListObjectVersions", req)
    IN  IF ~op_config.enabled THEN <<>>
        ELSE IF des = <<>> THEN <<>>
        ELSE IF \/ IsSome(des[1].expected_bucket_owner)
                \/ IsSome(des[1].key_marker)
                \/ IsSome(des[1].max_keys)
        THEN <<>>
        ELSE CacheIntent(
               AsKey(ListKeyData("ObjectVersionList", des[1].bucket,
                                 des[1].prefix, des[1].delimiter)),
               op_config)

HeadBucketIntent(req, cfg) ==
    LET op_config == cfg.ops.head_bucket
        des == TryGetInput("HeadBucket", req)
    IN  IF ~op_config.enabled THEN <<>>
        ELSE IF des = <<>> THEN <<>>
        ELSE IF IsSome(des[1].expected_bucket_owner) THEN <<>>
        ELSE CacheIntent(AsKey([kind |-> "Bucket", bucket |-> des[1].bucket]),
                         op_config)

ListBucketsIntent(req, cfg) ==
    LET op_config == cfg.ops.list_buckets
    IN  IF ~op_config.enabled THEN <<>>
        ELSE CacheIntent(AsKey([kind |-> "BucketList"]), op_config)

\* The operations CacheLogic for S3Extension dispatches on.
CachedOps == {"GetObject", "HeadObject", "ListObjects", "ListObjectsV2",
              "ListObjectVersions", "ListBuckets", "HeadBucket"}

MakeCacheIntentMutant(req, cfg) ==
    IF req.op = <<>> THEN <<>> ELSE GetObjectIntent(req, cfg)

\* impl CacheLogic for S3Extension (and for CacheLayer, which delegates to it):
\* None without an operation tag or for any other operation.
MakeCacheIntent(req, cfg) ==
    IF req.op = <<>> THEN <<>>
    ELSE CASE req.op[1] = "GetObject" -> GetObjectIntent(req, cfg)
           [] req.op[1] = "HeadObject" -> HeadObjectIntent(req, cfg)
           [] req.op[1] = "ListObjects" -> ListObjectsIntent(req, cfg)
           [] req.op[1] = "ListObjectsV2" -> ListObjectsV2Intent(req, cfg)
           [] req.op[1] = "ListObjectVersions" ->
                ListObjectVersionsIntent(req, cfg)
           [] req.op[1] = "ListBuckets" -> ListBucketsIntent(req, cfg)
           [] req.op[1] = "HeadBucket" -> HeadBucketIntent(req, cfg)
           [] OTHER -> <<>>

---------------------------------------------------------------------------
(* Cached responses                                                         *)

\* CacheData: the payload of an entry.  `either` tells ListObjects (Left) from
\* ListObjectsV2 (Right); bytes is the buffered body of a GetObject.
CacheData(kind, either, meta, bytes) ==
    [kind |-> kind, either |-> either, meta |-> meta, bytes |-> bytes]

\* A chunk of a body stream whose read ends in an error.
ReadError == "<read error>"

\* Body::store_all_unlimited().await.ok(): the whole body as bytes, None when
\* reading the stream fails.
StoreAllUnlimited(body) ==
    IF \E i \in DOMAIN body : body[i] = ReadError THEN <<>> ELSE Some(body)

\* async_from of a GetObject response ends in bytes.unwrap(): it panics when
\* the body could not be read.  The other operations read no body.
AsyncFromPanics(op, resp) ==
    op = "GetObject" /\ StoreAllUnlimited(resp.body) = <<>>

\* AsyncFrom<&mut S3Response<Op>> for CachedResponse, by operation: the output
\* metadata is cloned; GetObject also buffers the whole body.
AsyncFromMutant(op, resp, t) ==
    [ttl |-> <<>>, tti |-> <<>>, updated_at |-> t,
     data |-> CacheData(IF op = "GetObject" THEN "GetObject" ELSE "HeadObject",
                        "", [e_tag |-> <<>>, cache_control |-> <<>>], <<>>)]
AsyncFrom(op, resp, t) ==
    [ttl |-> <<>>, tti |-> <<>>, updated_at |-> t,
     data |-> CASE op = "GetObject" ->
                     CacheData("GetObject", "", resp.ext[1].data,
                               StoreAllUnlimited(resp.body)[1])
                [] op = "HeadObject" ->
                     CacheData("HeadObject", "", resp.ext[1].data, <<>>)
                [] op = "ListObjects" ->
                     CacheData("ListObjects", "Left", resp.ext[1].data, <<>>)
                [] op = "ListObjectsV2" ->
                     CacheData("ListObjects", "Right", resp.ext[1].data, <<>>)
                [] op = "ListObjectVersions" ->
                     CacheData("ListObjectVersions", "", resp.ext[1].data, <<>>)
                [] op = "HeadBucket" ->
                     CacheData("Bucket", "", resp.ext[1].data, <<>>)
                [] op = "ListBuckets" ->
                     CacheData("ListBuckets", "", resp.ext[1].data, <<>>)]

\* CachedResponse::time_to_live / time_to_idle
WithExpiry(cr, ttl, tti) == [cr EXCEPT !.ttl = ttl, !.tti = tti]

\* TryFrom<CachedResponse> for Response: the output is rebuilt from the stored
\* metadata (and bytes) and encoded; the new response carries no S3Extension.
ToResponseMutant(cr) ==
    [status |-> 200, headers |-> cr.data.meta, body |-> cr.data.bytes,
     ext |-> Some([op |-> Some(cr.data.kind), data |-> cr.data.meta])]
ToResponse(cr) ==
    [status |-> 200, headers |-> cr.data.meta, body |-> cr.data.bytes,
     ext |-> <<>>]

\* CachedResponse::size
Size(cr) == IF cr.data.kind = "GetObject" THEN Len(cr.data.bytes) ELSE 1

\* u32::MAX at the model's width.
U32Max == 2 ^ WeightBits - 1

\* The weigher closure of the cache builder: size().try_into().unwrap_or(u32::MAX)
WeigherMutant(cr) == 1
Weigher(cr) == IF Size(cr) > U32Max THEN U32Max ELSE Size(cr)

---------------------------------------------------------------------------
(* PerItemExpiration and the store (moka::future::Cache)                    *)

\* impl Expiry for PerItemExpiration
ExpireAfterCreate(value) == value.ttl

ExpireAfterReadMutant(value, current_duration) == current_duration
ExpireAfterRead(value, current_duration) == OptOr(value.tti, current_duration)

ExpireAfterUpdateMutant(value, current_duration) == current_duration
ExpireAfterUpdate(value, current_duration) == OptOr(value.ttl, current_duration)

\* The cache builder of From<CacheMiddlewareConfig>: time_to_live(config.ttl),
\* then time_to_live(config.tti); the later call replaces the earlier value and
\* time_to_idle is never set.
StoreTTL(cfg) == OptOr(cfg.tti, cfg.ttl)

\* The earliest time at which the store expires an entry: its per-item
\* expiration time or its last modification plus the store's time-to-live.
ExpTime(e, cfg) ==
    LET glob == IF StoreTTL(cfg) = <<>> THEN <<>>
                ELSE Some(e.lastMod + StoreTTL(cfg)[1])
    IN  IF e.expAt = <<>> THEN glob
        ELSE IF glob = <<>> THEN e.expAt
        ELSE Some(Min(e.expAt[1], glob[1]))

Expired(e, cfg, t) == ExpTime(e, cfg) # <<>> /\ ExpTime(e, cfg)[1] <= t

\* The duration until the entry expires, as the store hands it to the policy.
CurrentDuration(e, cfg, t) ==
    IF ExpTime(e, cfg) = <<>> \/ ExpTime(e, cfg)[1] < t THEN <<>>
    ELSE Some(ExpTime(e, cfg)[1] - t)

\* Cache::get: an entry that is present and not expired.
StoreGet(c, key, cfg, t) ==
    IF key \in DOMAIN c /\ ~Expired(c[key], cfg, t) THEN Some(c[key].value)
    ELSE <<>>

\* The effect of a successful get: expire_after_read decides the new per-item
\* expiration, which replaces the old one when it differs.
StoreAfterRead(c, key, cfg, t) ==
    LET cur == CurrentDuration(c[key], cfg, t)
        d == ExpireAfterRead(c[key].value, cur)
    IN  IF d = cur THEN c
        ELSE [c EXCEPT ![key].expAt =
                 IF d = <<>> THEN <<>> ELSE Some(t + d[1])]

\* Cache::insert: expire_after_create for a new key, expire_after_update for a
\* key the map already holds.
StoreInsertMutant(c, key, value, cfg, t) ==
    IF key \in DOMAIN c
    THEN [c EXCEPT ![key].value.data.meta = value.data.meta, ![key].lastMod = t]
    ELSE LET d == ExpireAfterCreate(value)
         IN  (key :> [value |-> value,
                      expAt |-> IF d = <<>> THEN <<>> ELSE Some(t + d[1]),
                      lastMod |-> t]) @@ c
StoreInsert(c, key, value, cfg, t) ==
    IF key \in DOMAIN c
    THEN LET cur == CurrentDuration(c[key], cfg, t)
             d == ExpireAfterUpdate(value, cur)
         IN  [c EXCEPT ![key] =
                [value |-> value,
                 expAt |-> IF d = cur THEN c[key].expAt
                           ELSE IF d = <<>> THEN <<>> ELSE Some(t + d[1]),
                 lastMod |-> t]]
    ELSE LET d == ExpireAfterCreate(value)
         IN  (key :> [value |-> value,
                      expAt |-> IF d = <<>> THEN <<>> ELSE Some(t + d[1]),
                      lastMod |-> t]) @@ c

\* Cache::remove / Cache::invalidate
StoreRemove(c, key) == [k \in DOMAIN c \ {key} |-> c[k]]

StoreRemoveAll(c, keys) == [k \in DOMAIN c \ keys |-> c[k]]

\* The weighted size the store holds against max_capacity.
TotalWeight(c) == SumOver(DOMAIN c, [k \in DOMAIN c |-> Weigher(c[k].value)])

---------------------------------------------------------------------------
(* The HTTP cache policy (http_cache_semantics::CachePolicy, private cache)  *)

\* CachePolicy::new_options(req, resp, resp_time, options)
NewPolicy(req, resp, resp_time) ==
    [req |-> req, resp |-> resp, response_time |-> resp_time]

\* The freshness lifetime the response's caching headers grant: max-age of
\* Cache-Control, 0 when the response carries no caching header.
MaxAge(policy) ==
    IF policy.resp.headers.cache_control = <<>> THEN 0
    ELSE policy.resp.headers.cache_control[1]

Age(policy, t) == t - policy.response_time

\* CachePolicy::time_to_live(now): the freshness lifetime that is left.
TimeToLiveMutant(policy, t) == 1
TimeToLive(policy, t) ==
    IF MaxAge(policy) > Age(policy, t) THEN MaxAge(policy) - Age(policy, t)
    ELSE 0

RevalidationHeadersMutant(policy, req) == req.headers

\* The request the policy prescribes for revalidation: the request's headers
\* with If-None-Match naming the stored ETag (after the client's own, if any).
RevalidationHeaders(policy, req) ==
    LET etag == policy.resp.headers.e_tag
        own == req.headers["if-none-match"]
    IN  IF etag = <<>> THEN req.headers
        ELSE [req.headers EXCEPT !["if-none-match"] =
                 IF own = <<>> THEN etag
                 ELSE Some(own[1] \o Sep \o etag[1])]

\* Whether the stored response answers this request: same operation, path and
\* query as the request the policy was built from.
RequestMatches(policy, req) ==
    /\ policy.req.op = req.op
    /\ policy.req.s3_path = req.s3_path
    /\ policy.req.qs = req.qs

\* CachePolicy::before_request(req, now)
BeforeRequestMutant(policy, req, t) ==
    IF RequestMatches(policy, req) /\ MaxAge(policy) > Age(policy, t)
    THEN [tag |-> "Fresh", headers |-> policy.resp.headers]
    ELSE [tag |-> "Stale", matches |-> FALSE,
          headers |-> RevalidationHeaders(policy, req)]
BeforeRequest(policy, req, t) ==
    IF RequestMatches(policy, req) /\ MaxAge(policy) > Age(policy, t)
    THEN [tag |-> "Fresh", headers |-> policy.resp.headers]
    ELSE [tag |-> "Stale", matches |-> RequestMatches(policy, req),
          headers |-> RevalidationHeaders(policy, req)]

---------------------------------------------------------------------------
(* CacheLayer::get_matching_response                                        *)

CacheStateNone == [state |-> "None"]

\* The lookup: the CacheState, the (possibly extended) request and the store
\* after the read.  The policy is built from the request being served and the
\* reconstructed response, with the entry's updated_at as response time.
GetMatchingResponseMutant(c, key, req, cfg, t) ==
    [cached |-> CacheStateNone, req |-> req, cache |-> c]
GetMatchingResponse(c, key, req, cfg, t) ==
    LET data == StoreGet(c, key, cfg, t)
    IN  IF data = <<>>
        THEN [cached |-> CacheStateNone, req |-> req, cache |-> c]
        ELSE
          LET c1 == StoreAfterRead(c, key, cfg, t)
              resp_time == data[1].updated_at
              resp == ToResponse(data[1])
              policy == NewPolicy(req, resp, resp_time)
              before == BeforeRequest(policy, req, t)
          IN  IF TimeToLive(policy, resp_time) = 0
              THEN [cached |-> [state |-> "Fresh", resp |-> resp],
                    req |-> req, cache |-> c1]
              ELSE IF before.tag = "Fresh"
              THEN [cached |-> [state |-> "Fresh",
                                resp |-> [resp EXCEPT !.headers = before.headers]],
                    req |-> req, cache |-> c1]
              ELSE IF ~before.matches
              THEN [cached |-> CacheStateNone, req |-> req,
                    cache |-> StoreRemove(c1, key)]
              ELSE [cached |-> [state |-> "Stale", resp |-> resp],
                    req |-> [req EXCEPT !.headers = before.headers],
                    cache |-> c1]

---------------------------------------------------------------------------
(* impl Layer for CacheLayer: call                                          *)

\* Result<Response, SendError>
Ok(resp) == [tag |-> "Ok", resp |-> resp]
ResponseErr(resp) == [tag |-> "ResponseErr", resp |-> resp]
RequestErr(resp) == [tag |-> "RequestErr", resp |-> resp]
Internal(msg) == [tag |-> "Internal", msg |-> msg]

\* Not a result: the call panicked and its future was dropped.
Panicked == [tag |-> "Panic"]

\* A client slot with no call in progress.  n numbers the calls; looked, fwd,
\* nextCalls, upres and inserted record what the call did; cr is the
\* CachedResponse the call has built and not inserted yet.
Idle ==
    [pc |-> "idle", n |-> 0, req |-> <<>>, intent |-> <<>>, has_etag |-> FALSE,
     cached |-> CacheStateNone, looked |-> FALSE, fwd |-> <<>>,
     nextCalls |-> 0, upres |-> <<>>, result |-> <<>>, inserted |-> FALSE,
     cr |-> <<>>]

\* call up to its first suspension in next.call: make_cache_intent, has_etag,
\* get_matching_response; a Fresh response is returned at once, anything else
\* is forwarded.  Yields the slot and the store.
CallStart(req, c, cfg, t) ==
    LET intent == MakeCacheIntent(req, cfg)
    IN  IF intent = <<>>
        THEN [slot |-> [Idle EXCEPT !.pc = "forwarded", !.req = Some(req),
                                    !.fwd = Some(req), !.nextCalls = 1],
              cache |-> c]
        ELSE
          LET has_etag == req.headers["etag"] # <<>>
              look == GetMatchingResponse(c, intent[1].key, req, cfg, t)
              base == [Idle EXCEPT !.req = Some(req), !.intent = intent,
                                   !.has_etag = has_etag, !.looked = TRUE,
                                   !.cached = look.cached]
          IN  IF look.cached.state = "Fresh"
              THEN [slot |-> [base EXCEPT !.pc = "done",
                                          !.result = Some(Ok(look.cached.resp))],
                    cache |-> look.cache]
              ELSE [slot |-> [base EXCEPT !.pc = "forwarded",
                                          !.fwd = Some(look.req),
                                          !.nextCalls = 1],
                    cache |-> look.cache]

\* "Add or update cache entry": a response that carries an S3Extension with a
\* cached operation is turned into a CachedResponse, given the intent's TTL and
\* TTI and inserted; the response is returned.  A panic of async_from unwinds
\* the call before anything is inserted.
InsertAndReturn(slot, resp, c, cfg, t) ==
    IF resp.ext = <<>> THEN [result |-> Ok(resp), cache |-> c, inserted |-> FALSE]
    ELSE IF resp.ext[1].op = <<>>
    THEN [result |-> Internal("MissingOp"), cache |-> c, inserted |-> FALSE]
    ELSE IF resp.ext[1].op[1] \notin CachedOps
    THEN [result |-> Ok(resp), cache |-> c, inserted |-> FALSE]
    ELSE IF AsyncFromPanics(resp.ext[1].op[1], resp)
    THEN [result |-> Panicked, cache |-> c, inserted |-> FALSE]
    ELSE LET cr == WithExpiry(AsyncFrom(resp.ext[1].op[1], resp, t),
                              slot.intent[1].ttl, slot.intent[1].tti)
         IN  [result |-> Ok(resp),
              cache |-> StoreInsert(c, slot.intent[1].key, cr, cfg, t),
              inserted |-> TRUE]

\* call after next.call has returned `res`.
CallFinishMutant(slot, res, c, cfg, t) ==
    IF slot.intent = <<>>
    THEN [result |-> res, cache |-> c, inserted |-> FALSE]
    ELSE IF res.tag = "Ok" THEN InsertAndReturn(slot, res.resp, c, cfg, t)
    ELSE IF res.tag = "ResponseErr" /\ slot.cached.state = "Stale"
    THEN IF res.resp.status = 304 /\ ~slot.has_etag
         THEN InsertAndReturn(slot, slot.cached.resp, c, cfg, t)
         ELSE IF res.resp.status = 304 /\ slot.has_etag
         THEN [result |-> Ok(res.resp), cache |-> c, inserted |-> FALSE]
         ELSE [result |-> res, cache |-> StoreRemove(c, slot.intent[1].key),
               inserted |-> FALSE]
    ELSE [result |-> res, cache |-> c, inserted |-> FALSE]
CallFinish(slot, res, c, cfg, t) ==
    IF slot.intent = <<>>
    THEN [result |-> res, cache |-> c, inserted |-> FALSE]
    ELSE IF res.tag = "Ok" THEN InsertAndReturn(slot, res.resp, c, cfg, t)
    ELSE IF res.tag = "ResponseErr" /\ slot.cached.state = "Stale"
    THEN IF res.resp.status = 304 /\ ~slot.has_etag
         THEN InsertAndReturn(slot, slot.cached.resp, c, cfg, t)
         ELSE IF res.resp.status = 304 /\ slot.has_etag
         THEN [result |-> Ok(res.resp), cache |-> c, inserted |-> FALSE]
         ELSE [result |-> res, cache |-> c, inserted |-> FALSE]
    ELSE [result |-> res, cache |-> c, inserted |-> FALSE]

\* The object a request names, as the client sent it: bucket, key and the
\* versionId query parameter ("" without one).
ReqTriple(req) ==
    <<req.s3_path.bucket, UnwrapOrEmpty(req.s3_path.key),
      UnwrapOrEmpty(req.qs[1]["versionId"])>>

\* A client calls the layer; the slot keeps the outcome of its previous call
\* (a result, or that the call panicked) until then.
Call(r, req) ==
    /\ rq[r].pc \in {"idle", "done", "panicked"}
    /\ calls < MaxCalls
    /\ calls' = calls + 1
    /\ LET out == CallStart(req, cache, config, now)
       IN  /\ rq' = [rq EXCEPT ![r] = [out.slot EXCEPT !.n = calls + 1]]
           /\ cache' = out.cache
    /\ processed' = IF req.op = Some("GetObject")
                    THEN processed \ {ReqTriple(req)} ELSE processed
    /\ UNCHANGED <<config, dirty, now, chan, worker, handlers, published,
                   kin, kout, pl, route, wire, hook, SysVars>>

\* next.call(req) returns.
NextReturns(r, res) ==
    /\ rq[r].pc = "forwarded"
    /\ rq' = [rq EXCEPT ![r].pc = "returned", ![r].upres = Some(res)]
    /\ UNCHANGED <<config, cache, dirty, now, calls, chan, worker, handlers,
                   published, processed, kin, kout, pl, route, wire, hook, SysVars>>

\* The rest of call: error handling, insertion, the result.
Finish(r) ==
    /\ rq[r].pc = "returned"
    /\ LET out == CallFinish(rq[r], rq[r].upres[1], cache, config, now)
       IN  /\ rq' = [rq EXCEPT
                        ![r].pc = IF out.result = Panicked THEN "panicked"
                                  ELSE "done",
                        ![r].result = IF out.result = Panicked THEN <<>>
                                      ELSE Some(out.result),
                        ![r].inserted = out.inserted]
           /\ cache' = out.cache
           /\ dirty' = (dirty \/ out.inserted)
           /\ processed' = IF out.inserted /\ rq[r].req[1].op = Some("GetObject")
                           THEN processed \ {ReqTriple(rq[r].req[1])}
                           ELSE processed
    /\ UNCHANGED <<config, now, calls, chan, worker, handlers, published,
                   kin, kout, pl, route, wire, hook, SysVars>>

\* The rest of call as concurrent callers see it, split where it suspends:
\* up to the CachedResponse being built (async_from has read the body) ...
FinishBuild(r) ==
    /\ rq[r].pc = "returned"
    /\ LET out == CallFinish(rq[r], rq[r].upres[1], cache, config, now)
       IN  rq' = [rq EXCEPT
                    ![r].pc = IF out.inserted THEN "built"
                              ELSE IF out.result = Panicked THEN "panicked"
                              ELSE "done",
                    ![r].result = IF out.result = Panicked THEN <<>>
                                  ELSE Some(out.result),
                    ![r].cr = IF out.inserted
                              THEN Some(out.cache[rq[r].intent[1].key].value)
                              ELSE <<>>]
    /\ UNCHANGED <<config, cache, dirty, now, calls, chan, worker, handlers,
                   published, processed, kin, kout, pl, route, wire, hook, SysVars>>

\* ... and self.cache.insert(key, cr), after which the response is returned.
FinishInsert(r) ==
    /\ rq[r].pc = "built"
    /\ cache' = StoreInsert(cache, rq[r].intent[1].key, rq[r].cr[1], config, now)
    /\ rq' = [rq EXCEPT ![r].pc = "done", ![r].inserted = TRUE]
    /\ dirty' = TRUE
    /\ processed' = IF rq[r].req[1].op = Some("GetObject")
                    THEN processed \ {ReqTriple(rq[r].req[1])} ELSE processed
    /\ UNCHANGED <<config, now, calls, chan, worker, handlers, published,
                   kin, kout, pl, route, wire, hook, SysVars>>

\* Time passes.
Tick ==
    /\ now < MaxTime
    /\ now' = now + 1
    /\ UNCHANGED <<config, cache, dirty, rq, calls, chan, worker, handlers,
                   published, processed, kin, kout, pl, route, wire, hook, SysVars>>

\* The store's housekeeping (moka applies writes and evicts in the background,
\* not inside insert): expired entries are dropped, and when the weighted size
\* exceeds max_capacity entries are evicted until it does not.  Which entries
\* go is the eviction policy's choice.
Housekeeping ==
    /\ dirty \/ \E k \in DOMAIN cache : Expired(cache[k], config, now)
    /\ LET live == StoreRemoveAll(cache,
                      {k \in DOMAIN cache : Expired(cache[k], config, now)})
       IN  IF TotalWeight(live) <= config.cache_size
           THEN cache' = live
           ELSE \E victims \in SUBSET DOMAIN live :
                  /\ TotalWeight(StoreRemoveAll(live, victims))
                        <= config.cache_size
                  /\ cache' = StoreRemoveAll(live, victims)
    /\ dirty' = FALSE
    /\ UNCHANGED <<config, now, rq, calls, chan, worker, handlers, published,
                   processed, kin, kout, pl, route, wire, hook, SysVars>>

---------------------------------------------------------------------------
(* CacheLayer::event_handler: the invalidation worker                       *)

\* The event types whose match arm invalidates; every other type reaches an
\* unimplemented!() arm.
InvalidatingTypes ==
    {<<"ObjectCreated", "Any">>, <<"ObjectCreated", "CompleteMultipartUpload">>,
     <<"ObjectCreated", "Copy">>, <<"ObjectCreated", "Put">>,
     <<"ObjectCreated", "Post">>,
     <<"ObjectRemoved", "Any">>, <<"ObjectRemoved", "Delete">>,
     <<"LifecycleExpiration", "Delete">>,
     <<"ObjectRestore", "Any">>, <<"ObjectRestore", "Completed">>,
     <<"ObjectRestore", "Delete">>, <<"ObjectRestore", "Post">>}

\* One record of an S3 event notification.
Record(event_type, bucket, key, version_id) ==
    [event_type |-> event_type, bucket |-> bucket, key |-> key,
     version_id |-> version_id]

S3Event(records) == [tag |-> "S3", records |-> records]
HttpEvent == [tag |-> "Http", records |-> <<>>]

RecordTriple(rec) == <<rec.bucket, rec.key, rec.version_id>>

\* The two keys a record invalidates, in the order the handler awaits them.
RecordGetKeyMutant(rec) ==
    AsKey(ObjectKeyData("GetObject", rec.bucket, <<"o2">>, rec.version_id))
RecordGetKey(rec) ==
    AsKey(ObjectKeyData("GetObject", rec.bucket, rec.key, rec.version_id))
RecordHeadKeyMutant(rec) ==
    AsKey(ListKeyData("ObjectList", rec.bucket, <<>>, <<>>))
RecordHeadKey(rec) ==
    AsKey(ObjectKeyData("HeadObject", rec.bucket, rec.key, rec.version_id))

\* The webhook publishes an event; the worker's receiver queues it.  Without a
\* receiver the event is lost.  At most `bound` events are published.
PublishUpTo(ev, bound) ==
    /\ published < bound
    /\ published' = published + 1
    /\ chan' = IF worker = "running"
               THEN Append(chan, [id |-> published + 1, event |-> ev])
               ELSE chan
    /\ UNCHANGED <<config, cache, dirty, now, rq, calls, worker, handlers,
                   processed, kin, kout, pl, route, wire, hook, SysVars>>

Publish(ev) == PublishUpTo(ev, MaxEvents)

\* The worker receives the next event: a non-S3 event is filtered out, an S3
\* event starts a handler that runs concurrently with the others.
Recv ==
    /\ worker = "running"
    /\ chan # <<>>
    /\ chan' = Tail(chan)
    /\ handlers' = IF Head(chan).event.tag = "S3"
                      /\ Head(chan).event.records # <<>>
                   THEN handlers \cup {[id |-> Head(chan).id,
                                        records |-> Head(chan).event.records,
                                        step |-> "get"]}
                   ELSE handlers
    /\ UNCHANGED <<config, cache, dirty, now, rq, calls, worker, published,
                   processed, kin, kout, pl, route, wire, hook, SysVars>>

\* A handler at the first await of a record: cache.invalidate of the GetObject
\* key.  A record whose type has no invalidating arm panics the worker task,
\* and with it every handler.
HandlerInvalidateGet(h) ==
    /\ h \in handlers
    /\ h.step = "get"
    /\ IF Head(h.records).event_type \in InvalidatingTypes
       THEN /\ cache' = StoreRemove(cache, RecordGetKey(Head(h.records)))
            /\ handlers' = (handlers \ {h}) \cup {[h EXCEPT !.step = "head"]}
            /\ worker' = worker
            /\ processed' = processed \cup {RecordTriple(Head(h.records))}
       ELSE /\ worker' = "panicked"
            /\ handlers' = {}
            /\ cache' = cache
            /\ processed' = processed
    /\ UNCHANGED <<config, dirty, now, rq, calls, chan, published, kin, kout, pl, route, wire, hook, SysVars>>

\* The second await of a record: cache.invalidate of the HeadObject key; the
\* handler then goes on to the next record or ends.
HandlerInvalidateHead(h) ==
    /\ h \in handlers
    /\ h.step = "head"
    /\ cache' = StoreRemove(cache, RecordHeadKey(Head(h.records)))
    /\ handlers' = IF Tail(h.records) = <<>> THEN handlers \ {h}
                   ELSE (handlers \ {h}) \cup
                        {[h EXCEPT !.step = "get", !.records = Tail(h.records)]}
    /\ UNCHANGED <<config, dirty, now, rq, calls, chan, worker, published,
                   processed, kin, kout, pl, route, wire, hook, SysVars>>

---------------------------------------------------------------------------
(* Configurations, requests, upstream answers and events explored           *)

\* CacheOpsConfig entries: { enabled, ttl, tti }
OpConfig(enabled, ttl, tti) == [enabled |-> enabled, ttl |-> ttl, tti |-> tti]
DefaultOp == OpConfig(TRUE, <<>>, <<>>)

\* CacheMiddlewareConfig
MkConfig(cache_size, ttl, tti, get_object, head_object) ==
    [cache_size |-> cache_size, ttl |-> ttl, tti |-> tti,
     ops |-> [get_object |-> get_object, head_object |-> head_object,
              list_objects |-> DefaultOp, list_object_versions |-> DefaultOp,
              head_bucket |-> DefaultOp, list_buckets |-> DefaultOp]]

Configs ==
    {MkConfig(3, <<>>, <<>>, DefaultOp, DefaultOp),
     MkConfig(3, <<>>, <<>>, OpConfig(TRUE, Some(1), Some(3)), DefaultOp),
     MkConfig(3, <<>>, <<>>, OpConfig(TRUE, Some(2), <<>>),
              OpConfig(TRUE, <<>>, Some(2)))}

Clients == {"c1"}

Bkt == <<"b">>
Obj == <<"o">>
Abc == <<"abc">>
V1 == <<"v1">>

ObjRequest(op, qs, headers) == MkRequest(Some(op), Bkt, Some(Obj), qs, headers, <<>>)

Requests ==
    {ObjRequest("GetObject", NoQs, NoHeaders),
     ObjRequest("GetObject", [NoQs EXCEPT !["versionId"] = Some(V1)], NoHeaders),
     ObjRequest("GetObject", NoQs,
                [NoHeaders EXCEPT !["range"] = Some(<<"bytes=", "0-10">>)]),
     ObjRequest("GetObject", NoQs,
                [NoHeaders EXCEPT !["if-none-match"] = Some(Abc)]),
     ObjRequest("GetObject", NoQs, [NoHeaders EXCEPT !["etag"] = Some(Abc)]),
     ObjRequest("HeadObject", NoQs, NoHeaders),
     ObjRequest("HeadObject", NoQs,
                [NoHeaders EXCEPT !["range"] = Some(<<"bytes=", "0-10">>)]),
     ObjRequest("PutObject", NoQs, NoHeaders),
     MkRequest(Some("ListBuckets"), <<>>, <<>>, NoQs, NoHeaders, <<>>),
     MkRequest(<<>>, Bkt, Some(Obj), NoQs, NoHeaders, <<>>)}

\* Response metadata: the ETag and the max-age of Cache-Control, if present.
Meta(e_tag, cache_control) == [e_tag |-> e_tag, cache_control |-> cache_control]
NoMeta == Meta(<<>>, <<>>)
Metas == {NoMeta, Meta(Some(Abc), Some(1))}

Bodies == {<<"h">>, <<"h", "e", "l", "l">>}

MkResponse(status, headers, body, ext) ==
    [status |-> status, headers |-> headers, body |-> body, ext |-> ext]

\* What the upstream client can answer to a forwarded request.  A success
\* carries the S3Extension of the request with the output's metadata; 304 is
\* an answer to a conditional request only; a request without an operation
\* tag is refused by the client itself.
UpstreamResults(req) ==
    IF req.op = <<>> THEN {Internal("MissingOp")}
    ELSE
      {Ok(MkResponse(200, m, b, Some([op |-> req.op, data |-> m]))) :
           m \in Metas,
           b \in IF req.op = Some("GetObject") THEN Bodies ELSE {<<>>}}
      \cup {ResponseErr(MkResponse(404, NoMeta, <<>>, <<>>)),
            Internal("upstream")}
      \cup (IF req.headers["if-none-match"] # <<>>
            THEN {ResponseErr(MkResponse(304, NoMeta, <<>>, <<>>))} ELSE {})

Events ==
    {S3Event(<<Record(<<"ObjectCreated", "Put">>, Bkt, Obj, <<>>)>>),
     S3Event(<<Record(<<"ObjectRemoved", "Delete">>, Bkt, Obj, V1)>>),
     S3Event(<<Record(<<"ObjectRemoved", "DeleteMarkerCreated">>, Bkt, Obj, <<>>)>>),
     HttpEvent}

---------------------------------------------------------------------------
(* The proxy: one cache layer, its clients, the upstream and the webhook     *)

Init ==
    /\ config \in Configs
    /\ cache = [k \in {} |-> <<>>]
    /\ dirty = FALSE
    /\ now = 0
    /\ rq = [r \in Clients |-> Idle]
    /\ calls = 0
    /\ chan = <<>>
    /\ worker = "running"
    /\ handlers = {}
    /\ published = 0
    /\ processed = {}
    /\ kin = <<>>
    /\ kout = <<>>
    /\ pl = <<>>
    /\ route = <<>>
    /\ wire = <<>>
    /\ hook = <<>>
    /\ SysInit

\* The cache layer and its surroundings after construction with the default
\* configuration.
CoreInit ==
    /\ config = MkConfig(3, <<>>, <<>>, DefaultOp, DefaultOp)
    /\ cache = [k \in {} |-> <<>>]
    /\ dirty = FALSE
    /\ now = 0
    /\ rq = [r \in Clients |-> Idle]
    /\ calls = 0
    /\ chan = <<>>
    /\ worker = "running"
    /\ handlers = {}
    /\ published = 0
    /\ processed = {}
    /\ kin = <<>>
    /\ kout = <<>>
    /\ pl = <<>>
    /\ route = <<>>
    /\ wire = <<>>
    /\ hook = <<>>

\* The request path: clients, the upstream, the clock and the store's
\* housekeeping.
Next ==
    \/ \E r \in Clients, req \in Requests : Call(r, req)
    \/ \E r \in Clients :
          /\ rq[r].pc = "forwarded"
          /\ \E res \in UpstreamResults(rq[r].fwd[1]) : NextReturns(r, res)
    \/ \E r \in Clients : Finish(r)
    \/ Tick
    \/ Housekeeping

Spec == Init /\ [][Next]_vars

---------------------------------------------------------------------------
(* The invalidation path: requests for one object and its versions, the     *)
(* webhook's events and the worker                                          *)

EventRequests ==
    {ObjRequest("GetObject", NoQs, NoHeaders),
     ObjRequest("GetObject", [NoQs EXCEPT !["versionId"] = Some(V1)], NoHeaders),
     ObjRequest("HeadObject", NoQs, NoHeaders),
     ObjRequest("HeadObject", [NoQs EXCEPT !["versionId"] = Some(V1)], NoHeaders)}

EventUpstreamResults(req) ==
    {Ok(MkResponse(200, NoMeta,
                   IF req.op = Some("GetObject") THEN <<"h">> ELSE <<>>,
                   Some([op |-> req.op, data |-> NoMeta]))),
     Internal("upstream")}

InitEvents ==
    /\ Init
    /\ config = MkConfig(3, <<>>, <<>>, DefaultOp, DefaultOp)

NextEvents ==
    \/ \E r \in Clients, req \in EventRequests : Call(r, req)
    \/ \E r \in Clients :
          /\ rq[r].pc = "forwarded"
          /\ \E res \in EventUpstreamResults(rq[r].fwd[1]) : NextReturns(r, res)
    \/ \E r \in Clients : Finish(r)
    \/ \E ev \in Events : Publish(ev)
    \/ Recv
    \/ \E h \in handlers : HandlerInvalidateGet(h)
    \/ \E h \in handlers : HandlerInvalidateHead(h)

SpecEvents == InitEvents /\ [][NextEvents]_vars

---------------------------------------------------------------------------
(* Key construction on its own: pairs of requests and their intents          *)

Str(a, b) == a \o Sep \o b

KeyObjects == {<<"a">>, Str(<<"a">>, <<"b">>)}
KeyVersions == {<<>>, Some(<<"c">>), Some(Str(<<"b">>, <<"c">>))}
KeyPrefixes == {<<>>, Some(<<"p">>)}
KeyDelims == {<<>>, Some(<<"/">>)}

KeyRequests ==
    {MkRequest(Some(op), Bkt, Some(o),
               [NoQs EXCEPT !["versionId"] = v], NoHeaders, <<>>) :
         op \in ObjectOps, o \in KeyObjects, v \in KeyVersions}
    \cup
    {MkRequest(Some(op), Bkt, <<>>,
               [NoQs EXCEPT !["prefix"] = p, !["delimiter"] = d], NoHeaders, <<>>) :
         op \in ListOps, p \in KeyPrefixes, d \in KeyDelims}
    \cup
    {MkRequest(Some("HeadBucket"), b, <<>>, NoQs, NoHeaders, <<>>) :
         b \in {Bkt, <<"b2">>}}
    \cup {MkRequest(Some("ListBuckets"), <<>>, <<>>, NoQs, NoHeaders, <<>>)}

\* Two requests are given their cache intents by the same layer.
MakeKeys(a, b) ==
    /\ kin' = <<a, b>>
    /\ kout' = <<MakeCacheIntent(a, config), MakeCacheIntent(b, config)>>
    /\ UNCHANGED <<config, cache, dirty, now, rq, calls, chan, worker, handlers,
                   published, processed, pl, route, wire, hook, SysVars>>

NextKey == \E a \in KeyRequests, b \in KeyRequests : MakeKeys(a, b)

SpecKey == InitEvents /\ [][NextKey]_vars

---------------------------------------------------------------------------
(* Every cached operation once: insertion and reconstruction of each of the  *)
(* six payload kinds                                                         *)

BucketRequest(op) == MkRequest(Some(op), Bkt, <<>>, NoQs, NoHeaders, <<>>)

RoundRequests ==
    {ObjRequest("GetObject", NoQs, NoHeaders),
     ObjRequest("HeadObject", NoQs, NoHeaders),
     BucketRequest("ListObjects"),
     BucketRequest("ListObjectsV2"),
     BucketRequest("ListObjectVersions"),
     BucketRequest("HeadBucket"),
     MkRequest(Some("ListBuckets"), <<>>, <<>>, NoQs, NoHeaders, <<>>)}

NextRound ==
    \/ \E r \in Clients, req \in RoundRequests : Call(r, req)
    \/ \E r \in Clients :
          /\ rq[r].pc = "forwarded"
          /\ \E res \in UpstreamResults(rq[r].fwd[1]) : NextReturns(r, res)
    \/ \E r \in Clients : Finish(r)
    \/ Tick

SpecRound == InitEvents /\ [][NextRound]_vars

---------------------------------------------------------------------------
(* Concurrent callers of one key, and a notification naming one object twice *)

Callers == {"c1", "c2"}

ConcUpstreamResults(req) ==
    {Ok(MkResponse(200, NoMeta, <<"h">>, Some([op |-> req.op, data |-> NoMeta]))),
     Ok(MkResponse(200, Meta(Some(Abc), <<>>), <<"h", "e", "l", "l">>,
                   Some([op |-> req.op, data |-> Meta(Some(Abc), <<>>)])))}

ConcEvents ==
    {S3Event(<<Record(<<"ObjectCreated", "Put">>, Bkt, Obj, <<>>),
               Record(<<"ObjectRemoved", "Delete">>, Bkt, Obj, <<>>)>>)}

InitConc ==
    /\ config = MkConfig(3, <<>>, <<>>, DefaultOp, DefaultOp)
    /\ cache = [k \in {} |-> <<>>]
    /\ dirty = FALSE
    /\ now = 0
    /\ rq = [r \in Callers |-> Idle]
    /\ calls = 0
    /\ chan = <<>>
    /\ worker = "running"
    /\ handlers = {}
    /\ published = 0
    /\ processed = {}
    /\ kin = <<>>
    /\ kout = <<>>
    /\ pl = <<>>
    /\ route = <<>>
    /\ wire = <<>>
    /\ hook = <<>>
    /\ SysInit

NextConc ==
    \/ \E r \in Callers : Call(r, ObjRequest("GetObject", NoQs, NoHeaders))
    \/ \E r \in Callers :
          /\ rq[r].pc = "forwarded"
          /\ \E res \in ConcUpstreamResults(rq[r].fwd[1]) : NextReturns(r, res)
    \/ \E r \in Callers : FinishBuild(r)
    \/ \E r \in Callers : FinishInsert(r)
    \/ \E ev \in ConcEvents : Publish(ev)
    \/ Recv
    \/ \E h \in handlers : HandlerInvalidateGet(h)
    \/ \E h \in handlers : HandlerInvalidateHead(h)

SpecConc == InitConc /\ [][NextConc]_vars

---------------------------------------------------------------------------
(* Middleware chains: Layer, NextLayer, Identity, Chain, DynChain and the    *)
(* RequestProcessor                                                          *)

\* The variables of the cache layer and its worker, which chains leave alone.
CacheVars == <<config, cache, dirty, now, rq, calls, chan, worker, handlers,
               published, processed, kin, kout>>

\* A Layer other than Identity and the chains (a CacheLayer, or any function
\* of a request and a NextLayer), by what it does with next:
\*   mark   calls next once with the request it has marked and marks the answer
\*   short  answers by itself and never calls next
\*   fail   returns an error and never calls next
\*   retry  calls next, and once more when next failed
Behaviours == {"mark", "short", "fail", "retry"}
Stage(name, beh) ==
    [t |-> "Stage", name |-> name, beh |-> beh, current |-> <<>>, next |-> <<>>]

\* struct Identity
IdentityLayer ==
    [t |-> "Identity", name |-> "", beh |-> "", current |-> <<>>, next |-> <<>>]

\* Chain::new(current, next) and DynChain::new(current, next)
Chain(current, next) ==
    [t |-> "Chain", name |-> "", beh |-> "", current |-> current, next |-> next]
DynChain(current, next) ==
    [t |-> "DynChain", name |-> "", beh |-> "", current |-> current,
     next |-> next]

\* What a call leaves behind: its result and the invocations of stages and of
\* the upstream client it made, in order.
Outcome(res, trace) == [res |-> res, trace |-> trace]
Invocation(ev, who, req) == [ev |-> ev, who |-> who, req |-> req]

\* Client::send as the closure `send` of RequestProcessor::call: the upstream
\* answers with the request it saw, or fails.
ClientSend(req, up) ==
    Outcome(IF up = "ok" THEN Ok(req) ELSE Internal("upstream"),
            <<Invocation("send", "client", req)>>)

\* A NextLayer is `send` (the empty sequence) or a closure
\* |req| layer.call(req, next), kept as the layer followed by its next.
Then(layer, next) == <<layer>> \o next

RECURSIVE LayerCall(_, _, _, _)
RECURSIVE NextCall(_, _, _)

\* impl NextLayer for Fun: call the closure.
NextCall(next, req, up) ==
    IF next = <<>> THEN ClientSend(req, up)
    ELSE LayerCall(Head(next), req, Tail(next), up)

\* A stage's call.
StageCall(layer, req, next, up) ==
    LET enter == <<Invocation("enter", layer.name, req)>>
        leave == <<Invocation("leave", layer.name, req)>>
    IN  CASE layer.beh = "mark" ->
               LET sub == NextCall(next, Append(req, layer.name), up)
               IN  Outcome(IF sub.res.tag = "Ok"
                           THEN Ok(Append(sub.res.resp, layer.name))
                           ELSE sub.res,
                           enter \o sub.trace \o leave)
          [] layer.beh = "short" -> Outcome(Ok(<<layer.name>>), enter \o leave)
          [] layer.beh = "fail" -> Outcome(Internal(layer.name), enter \o leave)
          [] layer.beh = "retry" ->
               LET first == NextCall(next, req, up)
               IN  IF first.res.tag = "Ok"
                   THEN Outcome(first.res, enter \o first.trace \o leave)
                   ELSE LET second == NextCall(next, req, up)
                        IN  Outcome(second.res,
                                    enter \o first.trace \o second.trace
                                          \o leave)

\* Layer::call(&self, req, next), by implementation.
ChainCallMutant(layer, req, next, up) ==
    LayerCall(layer.next, req, Then(layer.current, next), up)
ChainCall(layer, req, next, up) ==
    LayerCall(layer.current, req, Then(layer.next, next), up)

DynChainCall(layer, req, next, up) ==
    LayerCall(layer.current, req, Then(layer.next, next), up)

IdentityCall(layer, req, next, up) == NextCall(next, req, up)

LayerCall(layer, req, next, up) ==
    CASE layer.t = "Chain" -> ChainCall(layer, req, next, up)
      [] layer.t = "DynChain" -> DynChainCall(layer, req, next, up)
      [] layer.t = "Identity" -> IdentityCall(layer, req, next, up)
      [] layer.t = "Stage" -> StageCall(layer, req, next, up)

\* RequestProcessor::call and the handler of into_handler: the layer is called
\* with the client's send as next.
RequestProcessorCall(layer, req, up) == LayerCall(layer, req, <<>>, up)

\* impl From<&Vec<MiddlewareType>> for DynChain: DynChain(Identity, Identity),
\* then chain.then(layer) for each entry in order.
RECURSIVE DynChainFrom(_)
DynChainFromMutant(list) ==
    IF list = <<>> THEN DynChain(IdentityLayer, IdentityLayer)
    ELSE DynChain(list[Len(list)],
                  DynChainFrom(SubSeq(list, 1, Len(list) - 1)))
DynChainFrom(list) ==
    IF list = <<>> THEN DynChain(IdentityLayer, IdentityLayer)
    ELSE DynChain(DynChainFrom(SubSeq(list, 1, Len(list) - 1)),
                  list[Len(list)])

\* The static chain of the same list: RequestProcessor::from_client holds
\* Identity, and layer(l) wraps it as Chain::new(self.layer, l).
RECURSIVE ChainFrom(_)
ChainFrom(list) ==
    IF list = <<>> THEN IdentityLayer
    ELSE Chain(ChainFrom(SubSeq(list, 1, Len(list) - 1)), list[Len(list)])

\* The stages, continuations and upstreams compared.
MaxStages == 3
Ups == {"ok", "err"}
Req0 == <<"r">>

LayersA ==
    {Stage("a", b) : b \in Behaviours} \cup
    {IdentityLayer, Chain(Stage("a", "mark"), Stage("c", "retry")),
     DynChain(IdentityLayer, Stage("a", "short"))}
LayersB ==
    {Stage("b", b) : b \in Behaviours} \cup
    {IdentityLayer, DynChain(Stage("b", "retry"), Stage("d", "mark"))}
Continuations ==
    {<<>>, <<Stage("n", "mark")>>, <<Stage("n", "fail")>>,
     <<Stage("n", "retry"), Stage("o", "mark")>>}

StageNames == <<"m1", "m2", "m3", "m4", "m5">>

\* The middleware lists of a configuration, up to MaxStages entries.
MiddlewareLists ==
    UNION {{[i \in 1..n |-> IF f[i] = "identity" THEN IdentityLayer
                            ELSE Stage(StageNames[i], f[i])] :
               f \in [1..n -> Behaviours \cup {"identity"}]} :
           n \in 0..MaxStages}

\* One request through Chain(a, b), DynChain(a, b) and Identity, each called
\* with the same next.
CompareChains(a, b, next, up) ==
    /\ pl' = Some([kind |-> "pair", a |-> a, b |-> b, next |-> next, up |-> up,
                   chain |-> LayerCall(Chain(a, b), Req0, next, up),
                   dyn |-> LayerCall(DynChain(a, b), Req0, next, up),
                   identity |-> LayerCall(IdentityLayer, Req0, next, up)])
    /\ UNCHANGED <<CacheVars, route, wire, hook, SysVars>>

\* One request through the pipelines built from one middleware list: the
\* dynamic chain main builds and the static chain of the same stages.
RunPipelines(list, up) ==
    /\ pl' = Some([kind |-> "list", list |-> list, up |-> up,
                   dyn |-> RequestProcessorCall(DynChainFrom(list), Req0, up),
                   static |-> RequestProcessorCall(ChainFrom(list), Req0, up)])
    /\ UNCHANGED <<CacheVars, route, wire, hook, SysVars>>

NextChain ==
    \/ \E a \in LayersA, b \in LayersB, next \in Continuations, up \in Ups :
          CompareChains(a, b, next, up)
    \/ \E list \in MiddlewareLists, up \in Ups : RunPipelines(list, up)

SpecChain == InitEvents /\ [][NextChain]_vars

---------------------------------------------------------------------------
(* The front server: S3ServerBuilder::serve and the conversion of errors     *)

\* hyper::Response<hyper::Body> as written to the client.
HyperResponse(status, headers, body) ==
    [status |-> status, headers |-> headers, body |-> body]

\* impl From<Response> for hyper::Response<hyper::Body>
ResponseIntoHyper(resp) == HyperResponse(resp.status, resp.headers, resp.body)

\* The Display of SendError (its #[error] attributes).
SendErrorToString(e) ==
    CASE e.tag = "Internal" -> <<"Internal error">>
      [] e.tag = "RequestErr" -> <<"Error constructing request">>
      [] e.tag = "ResponseErr" -> <<"Error response">>

\* impl Into<hyper::Response<hyper::Body>> for SendError
SendErrorIntoHyper(e) ==
    IF e.tag \in {"RequestErr", "ResponseErr"} THEN ResponseIntoHyper(e.resp)
    ELSE HyperResponse(500, [e_tag |-> <<>>, cache_control |-> <<>>],
                       SendErrorToString(e))

\* svc_fn of serve, from the handler's result on: a response is converted, an
\* error is passed on as it is.
SvcFn(res) ==
    IF res.tag = "Ok" THEN [tag |-> "Ok", resp |-> ResponseIntoHyper(res.resp)]
    ELSE res

\* The service of make_svc: an Ok is written, any error becomes a 500 whose
\* body is the error's to_string().
MakeSvc(res) ==
    LET out == SvcFn(res)
    IN  IF out.tag = "Ok" THEN out.resp
        ELSE HyperResponse(500, [e_tag |-> <<>>, cache_control |-> <<>>],
                           SendErrorToString(out))

\* The server writes the answer to the call that has just ended.
ServerWrite(r) ==
    /\ rq[r].pc = "done"
    /\ IF wire = <<>> THEN TRUE ELSE wire[1].n # rq[r].n
    /\ wire' = Some([n |-> rq[r].n, returned |-> rq[r].result[1],
                     written |-> MakeSvc(rq[r].result[1])])
    /\ UNCHANGED <<CacheVars, pl, route, hook, SysVars>>

ServerRequests ==
    {ObjRequest("GetObject", NoQs, NoHeaders),
     ObjRequest("GetObject", NoQs,
                [NoHeaders EXCEPT !["if-none-match"] = Some(Abc)]),
     ObjRequest("PutObject", NoQs, NoHeaders),
     MkRequest(<<>>, Bkt, Some(Obj), NoQs, NoHeaders, <<>>)}

\* The upstream client's answers, with the error it gives when the input of
\* the request cannot be constructed (S3Error::InputErr).
ServerUpstreamResults(req) ==
    UpstreamResults(req)
      \cup (IF req.op = <<>> THEN {}
            ELSE {RequestErr(MkResponse(400, NoMeta, <<"InvalidRequest">>, <<>>))})

NextServer ==
    \/ \E r \in Clients, req \in ServerRequests : Call(r, req)
    \/ \E r \in Clients :
          /\ rq[r].pc = "forwarded"
          /\ \E res \in ServerUpstreamResults(rq[r].fwd[1]) : NextReturns(r, res)
    \/ \E r \in Clients : Finish(r)
    \/ \E r \in Clients : ServerWrite(r)
    \/ Tick

SpecServer == InitEvents /\ [][NextServer]_vars

---------------------------------------------------------------------------
(* The generated router: collect_routes and resolve_route                    *)

Methods == <<"HEAD", "GET", "POST", "PUT", "DELETE">>
PathPatterns == <<"Root", "Bucket", "Object">>

\* An Operation together with what collect_routes derives from it: the
\* pattern of its http_uri, its query tag and query patterns, the required
\* headers and query strings of its input and whether it needs the full body.
Operation(name, method, pattern, tag, patterns, headers, queries, full) ==
    [name |-> name, http_method |-> method, pattern |-> pattern,
     query_tag |-> tag, query_patterns |-> patterns,
     required_headers |-> headers, required_query_strings |-> queries,
     needs_full_body |-> full]

\* The operation names of the model in the order of str's Ord.
OpNames ==
    <<"CopyObject", "DeleteObject", "GetObject", "GetObjectAcl",
      "GetObjectAttributes", "GetObjectTagging", "GetObjectTorrent",
      "HeadObject", "ListObjectsV2", "ListParts", "PostObject", "PutObject",
      "SelectObjectContent", "UploadPartCopy">>

NameRank(name) == CHOOSE i \in DOMAIN OpNames : OpNames[i] = name

Priority(r) ==
    LET has_qt == r.query_tag # <<>>
        has_qp == r.query_patterns # <<>>
    IN  CASE has_qt /\ has_qp -> 1
          [] has_qt /\ ~has_qp -> 2
          [] ~has_qt /\ has_qp -> 3
          [] OTHER -> 4

\* The key of sort_by_key; Reverse(n) is ordered as -n.
RouteKeyMutant(r) ==
    <<Priority(r), 0 - Len(r.query_patterns),
      0 - Len(r.required_query_strings), 0 - Len(r.required_headers),
      0 - NameRank(r.name)>>

RouteKey(r) ==
    <<Priority(r), 0 - Len(r.query_patterns),
      0 - Len(r.required_query_strings), 0 - Len(r.required_headers),
      NameRank(r.name)>>

\* The order of the key tuples.
KeyLess(a, b) ==
    \E i \in DOMAIN a :
        /\ a[i] < b[i]
        /\ \A j \in 1..(i - 1) : a[j] = b[j]

\* Vec::sort_by_key, a stable sort.
RECURSIVE SortByKey(_)
SortByKey(vec) ==
    IF vec = <<>> THEN <<>>
    ELSE LET rest == SortByKey(Tail(vec))
             k == Cardinality({i \in DOMAIN rest :
                                 KeyLess(RouteKey(rest[i]), RouteKey(Head(vec)))})
         IN  SubSeq(rest, 1, k) \o <<Head(vec)>> \o SubSeq(rest, k + 1, Len(rest))

\* The routes of a set of operations in the order ops.values() visits them:
\* Operations is a BTreeMap keyed by the operation's name.
RECURSIVE PushOrder(_)
PushOrder(ops) ==
    IF ops = {} THEN <<>>
    ELSE LET first == CHOOSE o \in ops :
                        \A p \in ops : NameRank(o.name) <= NameRank(p.name)
         IN  <<first>> \o PushOrder(ops \ {first})

\* collect_routes: the routes by method and path pattern, each group sorted.
\* An empty group stands for a key the map does not have.
CollectRoutes(ops) ==
    [m \in {Methods[i] : i \in DOMAIN Methods} |->
       [p \in {PathPatterns[i] : i \in DOMAIN PathPatterns} |->
          SortByKey(PushOrder({o \in ops : o.http_method = m /\ o.pattern = p}))]]

\* OrderedQs::has and check_query_pattern.
QsHas(qs, name) == \E p \in qs : p[1] = name
CheckQueryPattern(qs, name, value) == <<name, value>> \in qs

UnknownOperation == [tag |-> "UnknownOperation"]
Succ(r) == [tag |-> "Ok", op |-> r.name, needs_full_body |-> r.needs_full_body]

IsFinalOp(r) ==
    /\ r.required_headers = <<>>
    /\ r.required_query_strings = <<>>
    /\ r.query_patterns = <<>>
    /\ r.query_tag = <<>>

\* What codegen_router asserts of a group while it writes resolve_route.
GroupAsserts(group) ==
    /\ group # <<>>
    /\ IF Len(group) = 1
       THEN /\ group[1].query_tag = <<>>
            /\ group[1].required_headers = <<>>
            /\ group[1].required_query_strings = <<>>
            /\ ~group[1].needs_full_body
       ELSE /\ Cardinality({i \in DOMAIN group : IsFinalOp(group[i])}) <= 1
            /\ (\E i \in DOMAIN group : IsFinalOp(group[i]))
                  => IsFinalOp(group[Len(group)])
            /\ \A i \in DOMAIN group :
                 /\ Len(group[i].query_patterns) <= 1
                 /\ Priority(group[i]) = 1 => group[i].name = "SelectObjectContent"
                 /\ Priority(group[i]) = 4 =>
                      /\ Len(group[i].required_query_strings) <= 1
                      /\ Len(group[i].required_headers) <= 2

\* The condition written for a route with a query tag or a query pattern.
QueryCond(r, qs) ==
    CASE Priority(r) = 1 ->
           /\ QsHas(qs, r.query_tag[1])
           /\ CheckQueryPattern(qs, r.query_patterns[1][1], r.query_patterns[1][2])
      [] Priority(r) = 2 -> QsHas(qs, r.query_tag[1])
      [] Priority(r) = 3 ->
           CheckQueryPattern(qs, r.query_patterns[1][1], r.query_patterns[1][2])
      [] OTHER -> FALSE

\* The condition written for a route with neither, from its required query
\* strings and headers; no condition is written when it has none.
RequiredCond(r, qs, headers) ==
    /\ Priority(r) = 4
    /\ r.required_query_strings # <<>> \/ r.required_headers # <<>>
    /\ r.required_query_strings # <<>> =>
         /\ qs # <<>>
         /\ \A i \in DOMAIN r.required_query_strings :
              QsHas(qs[1], r.required_query_strings[i])
    /\ \A i \in DOMAIN r.required_headers : r.required_headers[i] \in headers

\* The first route of the group, in the group's order, that meets cond.
FirstRoute(group, cond(_)) ==
    LET hits == {i \in DOMAIN group : cond(group[i])}
    IN  IF hits = {} THEN <<>>
        ELSE Some(group[CHOOSE i \in hits : \A j \in hits : i <= j])

\* resolve_route as codegen_router writes it for the routes given.
ResolveRouteMutant(method, s3_path, qs, headers, routes) ==
    LET m == IF \E i \in DOMAIN Methods : Methods[i] = method THEN method ELSE "GET"
        group == routes[m][s3_path]
        byQuery == IF qs = <<>> THEN <<>>
                   ELSE FirstRoute(group, LAMBDA r : QueryCond(r, qs[1]))
        byRequired == FirstRoute(group, LAMBDA r : RequiredCond(r, qs, headers))
    IN  IF group = <<>> THEN UnknownOperation
        ELSE IF Len(group) = 1 THEN Succ(group[1])
        ELSE IF byQuery # <<>> THEN Succ(byQuery[1])
        ELSE IF byRequired # <<>> THEN Succ(byRequired[1])
        ELSE IF \E i \in DOMAIN group : IsFinalOp(group[i])
             THEN Succ(group[Len(group)])
        ELSE UnknownOperation

ResolveRoute(method, s3_path, qs, headers, routes) ==
    IF ~(\E i \in DOMAIN Methods : Methods[i] = method) THEN UnknownOperation
    ELSE
      LET group == routes[method][s3_path]
          byQuery == IF qs = <<>> THEN <<>>
                     ELSE FirstRoute(group, LAMBDA r : QueryCond(r, qs[1]))
          byRequired == FirstRoute(group, LAMBDA r : RequiredCond(r, qs, headers))
      IN  IF group = <<>> THEN UnknownOperation
          ELSE IF Len(group) = 1 THEN Succ(group[1])
          ELSE IF byQuery # <<>> THEN Succ(byQuery[1])
          ELSE IF byRequired # <<>> THEN Succ(byRequired[1])
          ELSE IF \E i \in DOMAIN group : IsFinalOp(group[i])
               THEN Succ(group[Len(group)])
          ELSE UnknownOperation

MaxGroup == 3
MaxQs == 3

\* Operations on GET Object the group under study is drawn from.
GetObjectOps ==
    {Operation("GetObject", "GET", "Object", <<>>, <<>>, <<>>, <<>>, FALSE),
     Operation("GetObjectTorrent", "GET", "Object", <<>>, <<>>, <<>>, <<>>, FALSE),
     Operation("GetObjectAcl", "GET", "Object", Some("acl"), <<>>, <<>>, <<>>, FALSE),
     Operation("GetObjectTagging", "GET", "Object", Some("tagging"), <<>>, <<>>,
               <<>>, FALSE),
     Operation("GetObjectAttributes", "GET", "Object", Some("attributes"), <<>>,
               <<"x-amz-object-attributes">>, <<>>, FALSE),
     Operation("ListObjectsV2", "GET", "Object", <<>>, <<<<"list-type", "2">>>>,
               <<>>, <<>>, FALSE),
     Operation("SelectObjectContent", "GET", "Object", Some("select"),
               <<<<"select-type", "2">>>>, <<>>, <<>>, TRUE),
     Operation("ListParts", "GET", "Object", <<>>, <<>>, <<>>, <<"uploadId">>,
               FALSE),
     Operation("CopyObject", "GET", "Object", <<>>, <<>>,
               <<"x-amz-copy-source">>, <<>>, FALSE),
     Operation("UploadPartCopy", "GET", "Object", <<>>, <<>>,
               <<"x-amz-copy-source">>, <<"uploadId">>, TRUE)}

\* One operation alone on its method, so that every method has a route.
SoleOps ==
    {Operation("HeadObject", "HEAD", "Object", <<>>, <<>>, <<>>, <<>>, FALSE),
     Operation("PostObject", "POST", "Object", <<>>, <<>>, <<>>, <<>>, FALSE),
     Operation("PutObject", "PUT", "Object", <<>>, <<>>, <<>>, <<>>, FALSE),
     Operation("DeleteObject", "DELETE", "Object", <<>>, <<>>, <<>>, <<>>, FALSE)}

\* The sets of operations codegen_router accepts.
OperationSets ==
    {SoleOps \cup g : g \in {g \in SUBSET GetObjectOps :
                               /\ Cardinality(g) \in 1..MaxGroup
                               /\ GroupAsserts(SortByKey(PushOrder(g)))}}

QueryPairs ==
    {<<"acl", "">>, <<"tagging", "">>, <<"attributes", "">>, <<"select", "">>,
     <<"select-type", "2">>, <<"list-type", "2">>, <<"list-type", "1">>,
     <<"uploadId", "u">>}

QuerySets ==
    {<<>>} \cup {Some(q) : q \in {q \in SUBSET QueryPairs : Cardinality(q) <= MaxQs}}

HeaderSets == SUBSET {"x-amz-copy-source"}

RequestMethods == {"GET", "PUT", "PATCH"}

\* One request resolved by the router generated for a set of operations, and
\* resolved once more.
Resolve(ops, routes, method, s3_path, qs, headers) ==
    /\ route = <<>>
    /\ route' = Some([ops |-> ops, method |-> method, s3_path |-> s3_path,
                      qs |-> qs, headers |-> headers,
                      result |-> ResolveRoute(method, s3_path, qs, headers, routes),
                      again |-> ResolveRoute(method, s3_path, qs, headers, routes)])
    /\ UNCHANGED <<CacheVars, pl, wire, hook, SysVars>>

\* The resolution is handed to the caller.
Resolved ==
    /\ route # <<>>
    /\ route' = <<>>
    /\ UNCHANGED <<CacheVars, pl, wire, hook, SysVars>>

NextRoute ==
    \/ /\ route = <<>>
       /\ \E ops \in OperationSets :
          LET routes == CollectRoutes(ops)
          IN  \E method \in RequestMethods, i \in DOMAIN PathPatterns,
                 qs \in QuerySets, headers \in HeaderSets :
                 Resolve(ops, routes, method, PathPatterns[i], qs, headers)
    \/ Resolved

SpecRoute == InitEvents /\ [][NextRoute]_vars

---------------------------------------------------------------------------
(* The webhook ingress: WebhookEvent::from_request and the service of serve  *)

\* A token of a request body: a piece of text or one record of a notification.
Text(t) == [text |-> t, rec |-> <<>>]
RecordJson(rec) == [text |-> "record", rec |-> Some(rec)]

\* The JSON text of an S3 event notification.
ToJson(records) ==
    <<Text("{Records:[")>> \o [i \in DOMAIN records |-> RecordJson(records[i])]
      \o <<Text("]}")>>

\* serde_json::from_slice::<S3WebhookEvent>: the event of a body that is the
\* JSON text of a notification, nothing for any other body.
FromSlice(body) ==
    IF /\ Len(body) >= 2
       /\ body[1] = Text("{Records:[")
       /\ body[Len(body)] = Text("]}")
       /\ \A i \in 2..(Len(body) - 1) : body[i].rec # <<>>
    THEN Some(S3Event([i \in 1..(Len(body) - 2) |-> body[i + 1].rec[1]]))
    ELSE <<>>

\* A request to the webhook; readable tells whether hyper::body::to_bytes
\* gets the whole body.
WebhookRequest(parts, body, readable) ==
    [parts |-> parts, body |-> body, readable |-> readable]

\* WebhookEvent::Http(req.map(|_| body)): the request's parts and the bytes.
HttpRequestEvent(parts, body) ==
    [tag |-> "Http", records |-> <<>>, parts |-> parts, body |-> body]

FromRequestMutant(req) ==
    IF ~req.readable THEN [tag |-> "Err"]
    ELSE [tag |-> "Ok",
          event |-> IF FromSlice(req.body) # <<>> THEN FromSlice(req.body)[1]
                    ELSE S3Event(<<>>)]

FromRequest(req) ==
    IF ~req.readable THEN [tag |-> "Err"]
    ELSE [tag |-> "Ok",
          event |-> IF FromSlice(req.body) # <<>> THEN FromSlice(req.body)[1]
                    ELSE HttpRequestEvent(req.parts, req.body)]

\* What tx.broadcast(event) resolves to: an error once the channel is closed.
\* The channel does not wait for an active receiver, so publishing to an open
\* channel succeeds at once whether or not a worker is subscribed.
BroadcastMutant(isClosed) == "Ok"
Broadcast(isClosed) == IF isClosed THEN "Err" ELSE "Ok"

\* The broadcast channel is closed.
ChannelClose ==
    /\ ~closed
    /\ closed' = TRUE
    /\ UNCHANGED <<CacheVars, pl, route, wire, hook, srv, subs, env, sent, fs>>

\* The service of S3WebhookServerBuilder::serve: a body that cannot be read is
\* answered 500 and nothing is broadcast; otherwise the event is broadcast
\* once and the answer is 200.
WebhookServe(req) ==
    LET res == FromRequest(req)
    IN  IF res.tag = "Err"
        THEN /\ hook' = Some([req |-> req, event |-> <<>>, sent |-> "none",
                              status |-> 500])
             /\ UNCHANGED <<CacheVars, pl, route, wire, SysVars>>
        ELSE IF Broadcast(closed) = "Err"
        THEN /\ hook' = Some([req |-> req, event |-> Some(res.event),
                              sent |-> "Err", status |-> 500])
             /\ UNCHANGED <<CacheVars, pl, route, wire, SysVars>>
        ELSE /\ published < MaxEvents
             /\ published' = published + 1
             /\ chan' = IF worker = "running"
                        THEN Append(chan, [id |-> published + 1, event |-> res.event])
                        ELSE chan
             /\ hook' = Some([req |-> req, event |-> Some(res.event),
                              sent |-> "Ok", status |-> 200])
             /\ UNCHANGED <<config, cache, dirty, now, rq, calls, worker, handlers,
                            processed, kin, kout, pl, route, wire, SysVars>>

WebhookParts == {[method |-> "POST", uri |-> <<"/">>]}

WebhookBodies ==
    {ToJson(ev.records) : ev \in {e \in Events : e.tag = "S3"}}
      \cup {<<>>, <<Text("hello")>>, <<Text("{"), Text("}")>>,
            <<Text("{Records:["),
              RecordJson(Record(<<"ObjectCreated", "Put">>, Bkt, Obj, <<>>))>>}

WebhookRequests ==
    {WebhookRequest(p, b, r) : p \in WebhookParts, b \in WebhookBodies, r \in BOOLEAN}

NextHook ==
    \/ \E r \in Clients, req \in EventRequests : Call(r, req)
    \/ \E r \in Clients :
          /\ rq[r].pc = "forwarded"
          /\ \E res \in EventUpstreamResults(rq[r].fwd[1]) : NextReturns(r, res)
    \/ \E r \in Clients : Finish(r)
    \/ \E req \in WebhookRequests : WebhookServe(req)
    \/ Recv
    \/ \E h \in handlers : HandlerInvalidateGet(h)
    \/ \E h \in handlers : HandlerInvalidateHead(h)

SpecHook == InitEvents /\ [][NextHook]_vars

\* The webhook's replies: the channel may be closed and the cache layer may
\* not be subscribed.
InitReply ==
    /\ config = MkConfig(3, <<>>, <<>>, DefaultOp, DefaultOp)
    /\ cache = [k \in {} |-> <<>>]
    /\ dirty = FALSE
    /\ now = 0
    /\ rq = [r \in Clients |-> Idle]
    /\ calls = 0
    /\ chan = <<>>
    /\ worker \in {"running", "none"}
    /\ handlers = {}
    /\ published = 0
    /\ processed = {}
    /\ kin = <<>>
    /\ kout = <<>>
    /\ pl = <<>>
    /\ route = <<>>
    /\ wire = <<>>
    /\ hook = <<>>
    /\ SysInit

NextReply ==
    \/ \E req \in WebhookRequests : WebhookServe(req)
    \/ ChannelClose
    \/ Recv
    \/ \E h \in handlers : HandlerInvalidateGet(h)
    \/ \E h \in handlers : HandlerInvalidateHead(h)

SpecReply == InitReply /\ [][NextReply]_vars

---------------------------------------------------------------------------
(* Shutdown of the front server and of the webhook it starts               *)

MaxConns == 2

\* serve: the listener is bound and the server task is spawned; the webhook
\* is started only when a broadcast sender was set.  `accepted` and `answered`
\* count the front server's connections, `late` those it accepted after its
\* task had received the termination signal.
Serve(withBroadcast) ==
    [front |-> "running",
     term_sig |-> "unsent",
     webhook |-> IF withBroadcast THEN "running" ELSE "none",
     hook_sig |-> "unsent",
     hook_inflight |-> 0,
     inflight |-> 0,
     accepted |-> 0,
     answered |-> 0,
     late |-> 0,
     stop |-> "idle"]

SrvStep(next) ==
    /\ srv' = next
    /\ UNCHANGED <<CacheVars, pl, route, wire, hook, closed, subs, env, sent, fs>>

\* The accept loop of the front server.  with_graceful_shutdown polls it for
\* as long as the signal future is pending: that future first awaits the
\* oneshot receiver and then hook.stop().
Accept ==
    /\ srv.front \in {"running", "stopping_hook"}
    /\ srv.accepted < MaxConns
    /\ SrvStep([srv EXCEPT !.inflight = @ + 1, !.accepted = @ + 1,
                           !.late = IF srv.front = "stopping_hook"
                                    THEN @ + 1 ELSE @])

\* A connection's request is answered; a draining server still answers.
Respond ==
    /\ srv.front # "finished"
    /\ srv.inflight > 0
    /\ SrvStep([srv EXCEPT !.inflight = @ - 1, !.answered = @ + 1])

\* The webhook accepts a request, and answers it.
HookAccept ==
    /\ srv.webhook = "running"
    /\ srv.hook_inflight = 0
    /\ SrvStep([srv EXCEPT !.hook_inflight = 1])

HookRespond ==
    /\ srv.webhook \in {"running", "draining"}
    /\ srv.hook_inflight = 1
    /\ SrvStep([srv EXCEPT !.hook_inflight = 0])

\* stop(): term_sig.send(()), then the caller awaits fut.
Stop ==
    /\ srv.stop = "idle"
    /\ SrvStep([srv EXCEPT !.term_sig = "sent", !.stop = "awaiting"])

\* The server task's signal future: rx.await resolves; with a webhook the
\* future goes on to hook.stop(), which sends the webhook's own signal and
\* awaits the webhook's task; without one the future is done and the server
\* starts draining.
SignalReceived ==
    /\ srv.front = "running"
    /\ srv.term_sig = "sent"
    /\ SrvStep(IF srv.webhook = "none"
               THEN [srv EXCEPT !.term_sig = "received", !.front = "draining"]
               ELSE [srv EXCEPT !.term_sig = "received",
                                !.front = "stopping_hook",
                                !.hook_sig = "sent"])

\* The webhook's task receives its signal and drains.
HookSignalReceived ==
    /\ srv.webhook = "running"
    /\ srv.hook_sig = "sent"
    /\ SrvStep([srv EXCEPT !.hook_sig = "received", !.webhook = "draining"])

\* The webhook's task ends once its requests are answered.
HookFinished ==
    /\ srv.webhook = "draining"
    /\ srv.hook_inflight = 0
    /\ SrvStep([srv EXCEPT !.webhook = "finished"])

\* hook.stop() returns in the signal future: the front server stops
\* accepting and drains.
HookStopped ==
    /\ srv.front = "stopping_hook"
    /\ srv.webhook = "finished"
    /\ SrvStep([srv EXCEPT !.front = "draining"])

\* The server task ends once every connection is answered.
ServerFinished ==
    /\ srv.front = "draining"
    /\ srv.inflight = 0
    /\ SrvStep([srv EXCEPT !.front = "finished"])

\* fut resolves after the task, and stop() returns.
StopReturns ==
    /\ srv.stop = "awaiting"
    /\ srv.front = "finished"
    /\ SrvStep([srv EXCEPT !.stop = "returned"])

InitStop ==
    /\ CoreInit
    /\ closed = FALSE
    /\ srv \in {Serve(b) : b \in BOOLEAN}
    /\ subs = <<>>
    /\ env = <<>>
    /\ sent = <<>>
    /\ fs = <<>>

NextStop ==
    \/ Accept
    \/ Respond
    \/ HookAccept
    \/ HookRespond
    \/ Stop
    \/ SignalReceived
    \/ HookSignalReceived
    \/ HookFinished
    \/ HookStopped
    \/ ServerFinished
    \/ StopReturns

SpecStop == InitStop /\ [][NextStop]_vars

---------------------------------------------------------------------------
(* Subscribing the stages of a pipeline to the broadcast channel           *)

MaxSpawn == 3

\* The CacheLayers of a pipeline: rx_abort of each, the worker tasks that were
\* spawned and not aborted, and the id of the next task.
NoSubs(list) ==
    [list |-> list,
     rx_abort |-> [i \in 1..Len(list) |-> <<>>],
     tasks |-> {},
     next_id |-> 1,
     last |-> <<>>]

\* The index of a stage in the list it was built from.
StageIndex(name) == CHOOSE i \in 1..Len(StageNames) : StageNames[i] = name

\* CacheLayer::unsubscribe: rx_abort.take(), and abort() of the handle taken.
CacheUnsubscribe(st, name) ==
    LET i == StageIndex(name)
    IN  IF st.rx_abort[i] = <<>> THEN st
        ELSE [st EXCEPT !.rx_abort[i] = <<>>,
                        !.tasks = {t \in @ : t.id # st.rx_abort[i][1]}]

\* CacheLayer::subscribe: unsubscribe, then a worker is spawned on a new
\* receiver and its abort handle kept.
CacheSubscribeMutant(st, name) ==
    LET i == StageIndex(name)
    IN  [st EXCEPT !.rx_abort[i] = Some(st.next_id),
                   !.tasks = @ \cup {[id |-> st.next_id, stage |-> name]},
                   !.next_id = @ + 1]
CacheSubscribe(st, name) ==
    LET i == StageIndex(name)
        un == CacheUnsubscribe(st, name)
    IN  [un EXCEPT !.rx_abort[i] = Some(un.next_id),
                   !.tasks = @ \cup {[id |-> un.next_id, stage |-> name]},
                   !.next_id = @ + 1]

\* Layer::subscribe and Layer::unsubscribe: nothing by default (Identity),
\* the CacheLayer's own, and current then next for Chain and DynChain.
RECURSIVE LayerSubscribe(_, _)
LayerSubscribe(layer, st) ==
    IF layer.t = "Identity" THEN st
    ELSE IF layer.t = "Stage" THEN CacheSubscribe(st, layer.name)
    ELSE LayerSubscribe(layer.next, LayerSubscribe(layer.current, st))

RECURSIVE LayerUnsubscribe(_, _)
LayerUnsubscribe(layer, st) ==
    IF layer.t = "Identity" THEN st
    ELSE IF layer.t = "Stage" THEN CacheUnsubscribe(st, layer.name)
    ELSE LayerUnsubscribe(layer.next, LayerUnsubscribe(layer.current, st))

\* The stage whose cache, receiver and handlers the variables describe.
TheCache == StageNames[1]

WorkersOf(st, name) == {t \in st.tasks : t.stage = name}

\* A subscription step: the aborted worker of the cache stage is dropped with
\* its receiver and its handlers, a new worker starts on an empty receiver.
SubStep(next) ==
    /\ subs' = next
    /\ IF WorkersOf(next, TheCache) = WorkersOf(subs, TheCache)
       THEN UNCHANGED <<worker, chan, handlers>>
       ELSE /\ worker' = IF WorkersOf(next, TheCache) = {} THEN "none"
                         ELSE "running"
            /\ chan' = <<>>
            /\ handlers' = {}
    /\ UNCHANGED <<config, cache, dirty, now, rq, calls, published, processed,
                   kin, kout, pl, route, wire, hook, closed, srv, env, sent, fs>>

\* RequestProcessor::subscribe and ::unsubscribe on the pipeline built from
\* the list.
ProcessorSubscribe ==
    /\ subs.next_id + Len(subs.list) <= MaxSpawn + 1
    /\ SubStep([LayerSubscribe(DynChainFrom(subs.list), subs)
                  EXCEPT !.last = <<"subscribe">>])

ProcessorUnsubscribe ==
    SubStep([LayerUnsubscribe(DynChainFrom(subs.list), subs)
               EXCEPT !.last = <<"unsubscribe">>])

\* subscribe and unsubscribe of one CacheLayer.
StageSubscribe(i) ==
    /\ subs.list[i].t = "Stage"
    /\ subs.next_id <= MaxSpawn
    /\ SubStep([LayerSubscribe(subs.list[i], subs)
                  EXCEPT !.last = <<"subscribe", i>>])

StageUnsubscribe(i) ==
    /\ subs.list[i].t = "Stage"
    /\ SubStep([LayerUnsubscribe(subs.list[i], subs)
                  EXCEPT !.last = <<"unsubscribe", i>>])

\* The pipelines subscribed: up to two stages, each a CacheLayer or Identity.
SubLists ==
    {list \in MiddlewareLists :
        /\ Len(list) <= 2
        /\ \A i \in 1..Len(list) : list[i].beh \in {"", "mark"}}

InitSub ==
    /\ config = MkConfig(3, <<>>, <<>>, DefaultOp, DefaultOp)
    /\ cache = [k \in {} |-> <<>>]
    /\ dirty = FALSE
    /\ now = 0
    /\ rq = [r \in Clients |-> Idle]
    /\ calls = 0
    /\ chan = <<>>
    /\ worker = "none"
    /\ handlers = {}
    /\ published = 0
    /\ processed = {}
    /\ kin = <<>>
    /\ kout = <<>>
    /\ pl = <<>>
    /\ route = <<>>
    /\ wire = <<>>
    /\ hook = <<>>
    /\ closed = FALSE
    /\ srv = <<>>
    /\ subs \in {NoSubs(list) : list \in SubLists}
    /\ env = <<>>
    /\ sent = <<>>
    /\ fs = <<>>

NextSub ==
    \/ \E r \in Clients, req \in EventRequests : Call(r, req)
    \/ \E r \in Clients :
          /\ rq[r].pc = "forwarded"
          /\ \E res \in EventUpstreamResults(rq[r].fwd[1]) : NextReturns(r, res)
    \/ \E r \in Clients : Finish(r)
    \/ \E ev \in Events : Publish(ev)
    \/ Recv
    \/ \E h \in handlers : HandlerInvalidateGet(h)
    \/ \E h \in handlers : HandlerInvalidateHead(h)
    \/ ProcessorSubscribe
    \/ ProcessorUnsubscribe
    \/ \E i \in 1..Len(subs.list) : StageSubscribe(i)
    \/ \E i \in 1..Len(subs.list) : StageUnsubscribe(i)

SpecSub == InitSub /\ [][NextSub]_vars

---------------------------------------------------------------------------
(* The life of one request envelope: operation tag and decoded-input cell  *)

MaxGets == 3

\* impl From<s3s::http::Request> for Request: the extension starts with no
\* operation tag and an empty cell.  `decodes` counts the runs of the decoding
\* closure, `writes` the writes of the cell, `gets` the try_get_input calls.
EnvelopeFrom(req) ==
    [req |-> [req EXCEPT !.op = <<>>], data |-> <<>>, at |-> "server",
     gets |-> 0, decodes |-> 0, writes |-> 0, last |-> <<>>, resp |-> <<>>]

\* The service closure of the front server: s3_ext.op = Some(op.into()), then
\* the envelope is handed to the pipeline.
SetOp(e, op) == [e EXCEPT !.req.op = Some(op), !.at = "stage"]

\* OnceLock::get_or_try_init in try_get_input: a set cell is returned as it
\* is; an empty one runs the decoding and is set only when that succeeds.
\* The result is downcast to the metadata type of the operation asked for.
GetOrTryInitMutant(e, op) ==
    LET des == TryGetInput(op, e.req)
    IN  [e EXCEPT !.data = IF des = <<>> THEN <<>>
                           ELSE Some([ty |-> op, meta |-> des[1]]),
                  !.gets = @ + 1,
                  !.decodes = @ + 1,
                  !.writes = IF des = <<>> THEN @ ELSE @ + 1,
                  !.last = Some(des)]
GetOrTryInit(e, op) ==
    IF e.data # <<>>
    THEN [e EXCEPT !.gets = @ + 1,
                   !.last = Some(IF e.data[1].ty = op
                                 THEN Some(e.data[1].meta) ELSE <<>>)]
    ELSE LET des == TryGetInput(op, e.req)
         IN  [e EXCEPT !.data = IF des = <<>> THEN <<>>
                                ELSE Some([ty |-> op, meta |-> des[1]]),
                       !.gets = @ + 1,
                       !.decodes = @ + 1,
                       !.writes = IF des = <<>> THEN @ ELSE @ + 1,
                       !.last = Some(des)]

\* S3Extension::new_from: path, query set, credentials and operation tag are
\* cloned, the cell is a new empty one.
NewFrom(req) == [op |-> req.op, data |-> <<>>]

\* S3Client::call: with an operation tag the typed call builds the response's
\* extension with new_from and sets its cell to the output; without one the
\* untyped call takes the tag, finds none and fails.  The request is moved
\* into the call either way.
ClientCall(e) ==
    IF e.req.op = <<>>
    THEN [e EXCEPT !.at = "client", !.resp = Some("MissingOp")]
    ELSE [e EXCEPT !.at = "client",
                   !.resp = Some([NewFrom(e.req) EXCEPT !.data = Some("output")])]

EnvStep(next) ==
    /\ env' = next
    /\ UNCHANGED <<CacheVars, pl, route, wire, hook, closed, srv, subs, sent, fs>>

\* The front server prepares a request and hands it to the pipeline.
ServerPrepare(req) ==
    /\ env = <<>>
    /\ req.op # <<>>
    /\ EnvStep(Some(SetOp(EnvelopeFrom(req), req.op[1])))

\* A stage asks for the decoded input of the envelope's operation, as the
\* cache layer does for the operation it matched.
StageGetInput ==
    /\ env # <<>>
    /\ env[1].at = "stage"
    /\ env[1].gets < MaxGets
    /\ EnvStep(Some(GetOrTryInit(env[1], env[1].req.op[1])))

\* A stage rewrites the Range header of the request it holds.
RangeValues == {<<>>, Some(<<"bytes=", "0-1">>), Some(<<"lines=", "1">>)}

StageSetRange(v) ==
    /\ env # <<>>
    /\ env[1].at = "stage"
    /\ env[1].req.headers["range"] # v
    /\ EnvStep(Some([env[1] EXCEPT !.req.headers["range"] = v]))

\* The last stage passes the envelope to the upstream client.
StageSend ==
    /\ env # <<>>
    /\ env[1].at = "stage"
    /\ EnvStep(Some(ClientCall(env[1])))

\* The response is written and the envelope dropped.
EnvelopeDrop ==
    /\ env # <<>>
    /\ env[1].at = "client"
    /\ EnvStep(<<>>)

EnvelopeRequests ==
    {MkRequest(Some(op), Bkt, Some(Obj), NoQs,
               [NoHeaders EXCEPT !["range"] = v], <<>>) :
       op \in {"GetObject", "HeadObject", "ListObjectsV2", "HeadBucket"},
       v \in RangeValues}

NextEnv ==
    \/ \E req \in EnvelopeRequests : ServerPrepare(req)
    \/ StageGetInput
    \/ \E v \in RangeValues : StageSetRange(v)
    \/ StageSend
    \/ EnvelopeDrop

SpecEnv == InitEvents /\ [][NextEnv]_vars

---------------------------------------------------------------------------
(* The upstream client's errors as pipeline errors                          *)

\* s3s::S3Error values: a code and the status code it may carry.
S3sError(code, status) == [code |-> code, status |-> status]

S3sErrors ==
    {S3sError("NoSuchKey", Some(404)), S3sError("InvalidArgument", Some(400)),
     S3sError("InternalError", Some(500)), S3sError("Custom", <<>>)}

\* impl From<&s3s::S3Error> for Response: the error's status code, 500 without
\* one, and the error as XML body.
ResponseFromS3Error(e) ==
    MkResponse(IF e.status = <<>> THEN 500 ELSE e.status[1], NoMeta,
               <<"<Error>", e.code>>, <<>>)

\* enum S3Error of the client
ClientError(kind, e) == [kind |-> kind, e |-> e]

\* impl Service<Request> for S3ClientInner: the call without an operation.
UntypedCall(c) ==
    IF ~c.has_ext THEN [tag |-> "Err", err |-> ClientError("MissingExt", <<>>)]
    ELSE IF c.op = <<>>
    THEN [tag |-> "Err", err |-> ClientError("MissingOp", <<>>)]
    ELSE IF c.upstream # <<>>
    THEN [tag |-> "Err", err |-> ClientError("ResponseErr", c.upstream)]
    ELSE [tag |-> "Ok", resp |-> MkResponse(200, NoMeta, <<>>, <<>>)]

\* impl Service<(Request, &Op)> for S3ClientInner: the typed call decodes the
\* input, calls the operation and encodes the output.
TypedCall(c) ==
    IF ~c.has_ext THEN [tag |-> "Err", err |-> ClientError("MissingExt", <<>>)]
    ELSE IF c.input # <<>>
    THEN [tag |-> "Err", err |-> ClientError("InputErr", c.input)]
    ELSE IF c.upstream # <<>>
    THEN [tag |-> "Err", err |-> ClientError("ResponseErr", c.upstream)]
    ELSE IF c.output # <<>>
    THEN [tag |-> "Err", err |-> ClientError("OutputErr", c.output)]
    ELSE [tag |-> "Ok",
          resp |-> MkResponse(200, NoMeta, <<>>,
                              Some([op |-> c.op, data |-> NoMeta]))]

\* impl Service<Request> for S3Client: the untyped call when the extension or
\* its operation is missing, the typed call of the operation otherwise.
S3ClientCall(c) ==
    IF ~c.has_ext \/ c.op = <<>> THEN UntypedCall(c) ELSE TypedCall(c)

\* impl From<S3Error> for SendError
SendErrorFrom(err) ==
    CASE err.kind \in {"MissingExt", "MissingOp", "Other"} ->
            Internal(err.kind)
      [] err.kind \in {"InputErr", "RequestErr"} ->
            RequestErr(ResponseFromS3Error(err.e[1]))
      [] err.kind \in {"OutputErr", "ResponseErr"} ->
            ResponseErr(ResponseFromS3Error(err.e[1]))

\* impl Client for S3Client, send: the call with its error converted.
S3ClientSend(c) ==
    LET res == S3ClientCall(c)
    IN  IF res.tag = "Err" THEN SendErrorFrom(res.err) ELSE Ok(res.resp)

\* What can go wrong with one request in the client: the S3 error of each
\* step that fails.
SendCases ==
    [has_ext : BOOLEAN, op : {<<>>, Some("GetObject")},
     input : {<<>>} \cup {Some(e) : e \in S3sErrors},
     upstream : {<<>>} \cup {Some(e) : e \in S3sErrors},
     output : {<<>>, Some(S3sError("InternalError", Some(500))),
               Some(S3sError("Custom", <<>>))}]

Send(c) ==
    /\ sent' = Some([case |-> c, res |-> S3ClientSend(c)])
    /\ UNCHANGED <<CacheVars, pl, route, wire, hook, closed, srv, subs, env, fs>>

NextSend == \E c \in SendCases : Send(c)

SpecSend == InitEvents /\ [][NextSend]_vars

---------------------------------------------------------------------------
(* The configuration main starts with                                       *)

\* The path given with --config-file: nothing, a regular file or a directory;
\* `content` is what the configuration file holds (the path itself, or
\* config.toml in the directory), None without such a file.  `writable` tells
\* whether files can be removed and created there, `dotenv` whether a .env
\* file is found.
PathState(path, content, writable, dotenv) ==
    [path |-> path, content |-> content, writable |-> writable,
     dotenv |-> dotenv]

PathStates ==
    {PathState("missing", <<>>, w, d) : w \in BOOLEAN, d \in BOOLEAN}
      \cup {PathState(p, Some(c), w, d) :
               p \in {"file", "dir"}, c \in {"custom", "generated", "invalid"},
               w \in BOOLEAN, d \in BOOLEAN}
      \cup {PathState("dir", <<>>, w, d) : w \in BOOLEAN, d \in BOOLEAN}

\* struct ConfigFile of the command line
CliArgs ==
    [config_file : BOOLEAN, regenerate : BOOLEAN, generate_if_missing : BOOLEAN]

FsOk(f) == [tag |-> "Ok", f |-> f]
FsErr(msg) == [tag |-> "Err", msg |-> msg]

\* std::fs::remove_file
RemoveFile(f) ==
    IF f.writable THEN FsOk([f EXCEPT !.path = "missing", !.content = <<>>])
    ELSE FsErr("Could not delete file")

\* config::generate: config.toml inside a directory, otherwise the path, which
\* must not exist; the default configuration with a cache and an identity
\* middleware and client credentials is written to it.
Generate(f) ==
    IF f.path = "dir"
    THEN IF f.writable THEN FsOk([f EXCEPT !.content = Some("generated")])
         ELSE FsErr("Failed to open file")
    ELSE IF f.path # "missing" THEN FsErr("File already exists")
    ELSE IF f.writable
         THEN FsOk([f EXCEPT !.path = "file", !.content = Some("generated")])
         ELSE FsErr("Failed to open file")

\* config::load: the file (config.toml inside a directory) is read and parsed.
Load(f) ==
    IF f.content = <<>> \/ f.content = Some("invalid")
    THEN [tag |-> "Err", msg |-> "load"]
    ELSE [tag |-> "Ok", config |-> f.content[1]]

\* generate, then load of what is there.
GenerateAndLoad(f) ==
    LET g == Generate(f)
    IN  IF g.tag = "Err" THEN [f |-> f, out |-> g]
        ELSE [f |-> g.f, out |-> Load(g.f)]

\* main: the environment is loaded, then the configuration is chosen by
\* (file.exists(), generate_if_missing, regenerate); without a choice the
\* built-in defaults are used.
MainMutant(args, f) ==
    IF ~f.dotenv THEN [f |-> f, out |-> FsErr("Loading environment failed")]
    ELSE IF ~args.config_file
    THEN [f |-> f, out |-> [tag |-> "Ok", config |-> "builtin"]]
    ELSE IF f.path # "missing" THEN [f |-> f, out |-> Load(f)]
    ELSE IF args.regenerate \/ args.generate_if_missing
    THEN GenerateAndLoad(f)
    ELSE [f |-> f, out |-> [tag |-> "Ok", config |-> "builtin"]]
Main(args, f) ==
    IF ~f.dotenv THEN [f |-> f, out |-> FsErr("Loading environment failed")]
    ELSE IF ~args.config_file
    THEN [f |-> f, out |-> [tag |-> "Ok", config |-> "builtin"]]
    ELSE IF args.regenerate
    THEN IF f.path = "file"
         THEN LET r == RemoveFile(f)
              IN  IF r.tag = "Err" THEN [f |-> f, out |-> r]
                  ELSE GenerateAndLoad(r.f)
         ELSE GenerateAndLoad(f)
    ELSE IF f.path # "missing" THEN [f |-> f, out |-> Load(f)]
    ELSE IF args.generate_if_missing THEN GenerateAndLoad(f)
    ELSE [f |-> f, out |-> [tag |-> "Ok", config |-> "builtin"]]

\* The program is started with the arguments; a later start finds the files
\* the earlier one left.
Start(args) ==
    /\ fs.out = <<>>
    /\ LET m == Main(args, fs.f)
       IN  fs' = [before |-> fs.f, args |-> Some(args), f |-> m.f,
                  out |-> Some(m.out)]
    /\ UNCHANGED <<CacheVars, pl, route, wire, hook, closed, srv, subs, env, sent>>

Exit ==
    /\ fs.out # <<>>
    /\ fs' = [before |-> fs.f, args |-> <<>>, f |-> fs.f, out |-> <<>>]
    /\ UNCHANGED <<CacheVars, pl, route, wire, hook, closed, srv, subs, env, sent>>

InitCli ==
    /\ CoreInit
    /\ closed = FALSE
    /\ srv = <<>>
    /\ subs = <<>>
    /\ env = <<>>
    /\ sent = <<>>
    /\ fs \in {[before |-> f, args |-> <<>>, f |-> f, out |-> <<>>] :
                f \in PathStates}

NextCli ==
    \/ \E args \in CliArgs : Start(args)
    \/ Exit

SpecCli == InitCli /\ [][NextCli]_vars

---------------------------------------------------------------------------
(* The request path with every kind of error from next                     *)

\* What next can answer: one cacheable success, whose response goes stale, and
\* each error: a refused request, a missing object, Not Modified to a
\* conditional request, and an internal error.
ErrUpstreamResults(req) ==
    IF req.op = <<>> THEN {Internal("MissingOp")}
    ELSE
      {Ok(MkResponse(200, Meta(Some(Abc), Some(1)),
                     IF req.op = Some("GetObject") THEN <<"h">> ELSE <<>>,
                     Some([op |-> req.op, data |-> Meta(Some(Abc), Some(1))]))),
       RequestErr(MkResponse(400, NoMeta, <<>>, <<>>)),
       ResponseErr(MkResponse(404, NoMeta, <<>>, <<>>)),
       Internal("upstream")}
      \cup (IF req.headers["if-none-match"] # <<>>
            THEN {ResponseErr(MkResponse(304, NoMeta, <<>>, <<>>))} ELSE {})

NextErr ==
    \/ \E r \in Clients, req \in Requests : Call(r, req)
    \/ \E r \in Clients :
          /\ rq[r].pc = "forwarded"
          /\ \E res \in ErrUpstreamResults(rq[r].fwd[1]) : NextReturns(r, res)
    \/ \E r \in Clients : Finish(r)
    \/ Tick
    \/ Housekeeping

SpecErr == Init /\ [][NextErr]_vars

---------------------------------------------------------------------------
(* The worker next to a cache that holds entries of every scope             *)

Obj2 == <<"o2">>

\* Requests that fill the cache with entries of two objects, of a listing and
\* of a bucket.
FrameRequests ==
    {ObjRequest("GetObject", NoQs, NoHeaders),
     ObjRequest("HeadObject", NoQs, NoHeaders),
     MkRequest(Some("GetObject"), Bkt, Some(Obj2), NoQs, NoHeaders, <<>>),
     BucketRequest("ListObjects"),
     BucketRequest("HeadBucket")}

NextFrame ==
    \/ \E r \in Clients, req \in FrameRequests : Call(r, req)
    \/ \E r \in Clients :
          /\ rq[r].pc = "forwarded"
          /\ \E res \in EventUpstreamResults(rq[r].fwd[1]) : NextReturns(r, res)
    \/ \E r \in Clients : Finish(r)
    \/ \E ev \in Events : Publish(ev)
    \/ Recv
    \/ \E h \in handlers : HandlerInvalidateGet(h)
    \/ \E h \in handlers : HandlerInvalidateHead(h)

SpecFrame == InitEvents /\ [][NextFrame]_vars

---------------------------------------------------------------------------
(* Several events at once, when no request is under way                     *)

MaxBurst == 2

\* Notifications about two objects: single records, one record of a type the
\* handler has no arm for, and one notification with a record of each object.
BurstEvents ==
    {S3Event(<<Record(<<"ObjectCreated", "Put">>, Bkt, Obj, <<>>)>>),
     S3Event(<<Record(<<"ObjectRemoved", "Delete">>, Bkt, Obj2, <<>>)>>),
     S3Event(<<Record(<<"ObjectRemoved", "DeleteMarkerCreated">>, Bkt, Obj, <<>>)>>),
     S3Event(<<Record(<<"ObjectCreated", "Copy">>, Bkt, Obj2, <<>>),
               Record(<<"ObjectRestore", "Completed">>, Bkt, Obj, <<>>)>>)}

NoCallUnderWay == \A r \in Clients : rq[r].pc \in {"idle", "done"}

\* Requests fill the cache; once the first event is published no request is
\* made any more.
NextBurst ==
    \/ \E r \in Clients, req \in FrameRequests : published = 0 /\ Call(r, req)
    \/ \E r \in Clients :
          /\ rq[r].pc = "forwarded"
          /\ \E res \in EventUpstreamResults(rq[r].fwd[1]) : NextReturns(r, res)
    \/ \E r \in Clients : Finish(r)
    \/ \E ev \in BurstEvents : NoCallUnderWay /\ PublishUpTo(ev, MaxBurst)
    \/ Recv
    \/ \E h \in handlers : HandlerInvalidateGet(h)
    \/ \E h \in handlers : HandlerInvalidateHead(h)

SpecBurst == InitEvents /\ [][NextBurst]_vars

---------------------------------------------------------------------------
(* The worker as a process that must keep going: a receiver of bounded      *)
(* capacity that overflows, and fair scheduling of the worker task          *)

MaxLive == 3
ChanCap == 1

\* RecvError::Overflowed(n), as the stream yields it to the worker.
Overflowed(n) == [tag |-> "Overflowed", records |-> <<>>, n |-> n]

IsNotice(item) == item.event.tag = "Overflowed"

\* The messages the n-th of which the receiver lost, if its next item is the
\* notice of a loss.
Skipped(q) == IF q # <<>> /\ IsNotice(Head(q)) THEN Head(q).event.n ELSE 0

Messages(q) == SelectSeq(q, LAMBDA item : ~IsNotice(item))

\* Sender::broadcast on a channel of capacity cap in overflow mode: a full
\* channel drops its oldest message, and the receiver that had not taken it
\* finds the number of messages it lost in front of the ones it still gets.
PublishOverflow(ev, bound, cap) ==
    /\ published < bound
    /\ published' = published + 1
    /\ LET item == [id |-> published + 1, event |-> ev]
       IN  chan' = IF worker # "running" THEN chan
                   ELSE IF Len(Messages(chan)) < cap THEN Append(chan, item)
                   ELSE <<[id |-> 0, event |-> Overflowed(Skipped(chan) + 1)]>>
                        \o Tail(Messages(chan)) \o <<item>>
    /\ UNCHANGED <<config, cache, dirty, now, rq, calls, worker, handlers,
                   processed, kin, kout, pl, route, wire, hook, SysVars>>

LiveEvents ==
    {S3Event(<<Record(<<"ObjectCreated", "Put">>, Bkt, Obj, <<>>)>>),
     S3Event(<<Record(<<"ObjectRemoved", "DeleteMarkerCreated">>, Bkt, Obj, <<>>)>>),
     HttpEvent}

NextLive ==
    \/ \E r \in Clients :
          Call(r, ObjRequest("GetObject", NoQs, NoHeaders))
    \/ \E r \in Clients :
          /\ rq[r].pc = "forwarded"
          /\ \E res \in EventUpstreamResults(rq[r].fwd[1]) : NextReturns(r, res)
    \/ \E r \in Clients : Finish(r)
    \/ \E ev \in LiveEvents : PublishOverflow(ev, MaxLive, ChanCap)
    \/ Recv
    \/ \E h \in handlers : HandlerInvalidateGet(h)
    \/ \E h \in handlers : HandlerInvalidateHead(h)

\* The runtime polls the worker task whenever it can make progress: an item
\* in the receiver is taken, a handler at an await is resumed.
SpecLive ==
    /\ InitEvents
    /\ [][NextLive]_vars
    /\ WF_vars(Recv)
    /\ WF_vars(\E h \in handlers : HandlerInvalidateGet(h))
    /\ WF_vars(\E h \in handlers : HandlerInvalidateHead(h))

---------------------------------------------------------------------------
(* An object that changes after the proxy has fetched it: the notification  *)
(* arrives while the call that fetched it has not inserted yet              *)

FetchedNotInserted == \E r \in Clients : rq[r].pc \in {"returned", "built"}

NextRace ==
    \/ \E r \in Clients : Call(r, ObjRequest("GetObject", NoQs, NoHeaders))
    \/ \E r \in Clients :
          /\ rq[r].pc = "forwarded"
          /\ \E res \in ConcUpstreamResults(rq[r].fwd[1]) : NextReturns(r, res)
    \/ \E r \in Clients : FinishBuild(r)
    \/ \E r \in Clients : FinishInsert(r)
    \/ \E ev \in Events : FetchedNotInserted /\ Publish(ev)
    \/ Recv
    \/ \E h \in handlers : HandlerInvalidateGet(h)
    \/ \E h \in handlers : HandlerInvalidateHead(h)

SpecRace == InitEvents /\ [][NextRace]_vars

---------------------------------------------------------------------------
(* Requesters with different credentials and an upstream that tells them    *)
(* apart                                                                    *)

\* S3ClientConfig.credentials: the keys the upstream client is built with.
ClientCredentials == Some("proxy")

\* The credentials an upstream call is signed with: the SDK client signs with
\* the provider it was configured with, whatever the envelope carries.
UpstreamCredentialsMutant(req) == req.credentials
UpstreamCredentials(req) == ClientCredentials

\* The credentials of requesters: none, and two key holders.
Requesters == {<<>>, Some("alice"), Some("bob")}

\* Upstream's access policy for the object: whom it answers.
Granted == {Some("proxy"), Some("alice")}

CredRequests ==
    {MkRequest(Some(op), Bkt, Some(Obj), NoQs, NoHeaders, c) :
        op \in ObjectOps, c \in Requesters}

\* What upstream answers a call signed with the given credentials.
AnswerTo(credentials, req) ==
    IF credentials \in Granted
    THEN {Ok(MkResponse(200, NoMeta,
                        IF req.op = Some("GetObject") THEN <<"h">> ELSE <<>>,
                        Some([op |-> req.op, data |-> NoMeta])))}
    ELSE {ResponseErr(MkResponse(403, NoMeta, <<>>, <<>>))}

CredUpstreamResults(req) == AnswerTo(UpstreamCredentials(req), req)

\* Callers take turns: a call starts when no other is under way.
NextCred ==
    \/ \E r \in Callers, req \in CredRequests :
          /\ \A q \in Callers : rq[q].pc \in {"idle", "done"}
          /\ Call(r, req)
    \/ \E r \in Callers :
          /\ rq[r].pc = "forwarded"
          /\ \E res \in CredUpstreamResults(rq[r].fwd[1]) : NextReturns(r, res)
    \/ \E r \in Callers : Finish(r)

SpecCred == InitConc /\ [][NextCred]_vars

---------------------------------------------------------------------------
(* An upstream whose response body can fail while it is read                *)

\* What next can answer: a success whose body reads to the end, a success
\* whose body stream breaks after its first chunk, and an error.
BodyUpstreamResults(req) ==
    {Ok(MkResponse(200, NoMeta, b, Some([op |-> req.op, data |-> NoMeta]))) :
         b \in IF req.op = Some("GetObject")
               THEN {<<"h">>, <<"h", ReadError>>} ELSE {<<>>}}
    \cup {Internal("upstream")}

NextBody ==
    \/ \E r \in Clients, req \in EventRequests : Call(r, req)
    \/ \E r \in Clients :
          /\ rq[r].pc = "forwarded"
          /\ \E res \in BodyUpstreamResults(rq[r].fwd[1]) : NextReturns(r, res)
    \/ \E r \in Clients : Finish(r)
    \/ Tick

SpecBody == InitEvents /\ [][NextBody]_vars

---------------------------------------------------------------------------
(* Store-wide expiration: a cache layer built with a global ttl and tti      *)

\* Configurations with a global tti, and with a global ttl beside it.  In the
\* first one GetObject entries also carry a longer per-item tti, so that the
\* per-item expiration the store keeps tells when the entry was last read.
GlobalConfigs ==
    {MkConfig(3, <<>>, Some(2), OpConfig(TRUE, <<>>, Some(3)), DefaultOp),
     MkConfig(3, Some(1), Some(2), DefaultOp, DefaultOp)}

InitGlobal ==
    /\ config \in GlobalConfigs
    /\ cache = [k \in {} |-> <<>>]
    /\ dirty = FALSE
    /\ now = 0
    /\ rq = [r \in Clients |-> Idle]
    /\ calls = 0
    /\ chan = <<>>
    /\ worker = "running"
    /\ handlers = {}
    /\ published = 0
    /\ processed = {}
    /\ kin = <<>>
    /\ kout = <<>>
    /\ pl = <<>>
    /\ route = <<>>
    /\ wire = <<>>
    /\ hook = <<>>
    /\ SysInit

NextGlobal ==
    \/ \E r \in Clients, req \in EventRequests : Call(r, req)
    \/ \E r \in Clients :
          /\ rq[r].pc = "forwarded"
          /\ \E res \in UpstreamResults(rq[r].fwd[1]) : NextReturns(r, res)
    \/ \E r \in Clients : Finish(r)
    \/ Tick
    \/ Housekeeping

SpecGlobal == InitGlobal /\ [][NextGlobal]_vars

---------------------------------------------------------------------------
(* Requests the cache must pass by: disabled operations, bypass fields       *)

\* The settings of CacheOpsConfig.
OpSettings == {"get_object", "head_object", "list_objects",
               "list_object_versions", "head_bucket", "list_buckets"}

\* The default configuration, and the default with one operation disabled.
BypassConfigs ==
    LET default == MkConfig(3, <<>>, <<>>, DefaultOp, DefaultOp)
    IN  {default} \cup {[default EXCEPT !.ops[s].enabled = FALSE] : s \in OpSettings}

WithQuery(req, name, value) ==
    [req EXCEPT !.qs = Some([req.qs[1] EXCEPT ![name] = Some(value)])]
WithHeader(req, name, value) == [req EXCEPT !.headers[name] = Some(value)]

\* Requests that carry one of the fields make_cache_intent tests: as a
\* header (x-amz-expected-bucket-owner) or as a query parameter.
FieldRequests ==
    {WithHeader(req, "x-amz-expected-bucket-owner", <<"123">>) :
        req \in {ObjRequest("HeadObject", NoQs, NoHeaders),
                 BucketRequest("ListObjects"), BucketRequest("ListObjectsV2"),
                 BucketRequest("ListObjectVersions"), BucketRequest("HeadBucket")}}
      \cup {WithQuery(ObjRequest("GetObject", NoQs, NoHeaders), "partNumber", <<"1">>),
            WithQuery(BucketRequest("ListObjectVersions"), "key-marker", <<"k">>),
            WithQuery(BucketRequest("ListObjectVersions"), "max-keys", <<"5">>),
            WithQuery(BucketRequest("ListObjectsV2"), "max-keys", <<"5">>),
            WithQuery(BucketRequest("ListObjectsV2"), "start-after", <<"k">>)}

InitBypass ==
    /\ config \in BypassConfigs
    /\ cache = [k \in {} |-> <<>>]
    /\ dirty = FALSE
    /\ now = 0
    /\ rq = [r \in Clients |-> Idle]
    /\ calls = 0
    /\ chan = <<>>
    /\ worker = "running"
    /\ handlers = {}
    /\ published = 0
    /\ processed = {}
    /\ kin = <<>>
    /\ kout = <<>>
    /\ pl = <<>>
    /\ route = <<>>
    /\ wire = <<>>
    /\ hook = <<>>
    /\ SysInit

NextBypass ==
    \/ \E r \in Clients, req \in RoundRequests \cup FieldRequests : Call(r, req)
    \/ \E r \in Clients :
          /\ rq[r].pc = "forwarded"
          /\ \E res \in EventUpstreamResults(rq[r].fwd[1]) : NextReturns(r, res)
    \/ \E r \in Clients : Finish(r)

SpecBypass == InitBypass /\ [][NextBypass]_vars

---------------------------------------------------------------------------
(* Properties                                                                *)

\* The step in which client r starts a call, and the step in which its call
\* resumes after next.call.
CallStep(r) == calls' = calls + 1 /\ rq'[r].n = calls'
FinishStep(r) == rq[r].pc = "returned" /\ rq'[r].pc = "done"

\* The key the layer gives a request.
KeyOf(req) == MakeCacheIntent(req, config)[1].key

\* A GetObject request of an enabled operation with no range, no partNumber
\* and no conditional header.
PlainGet(req) ==
    /\ req.op = Some("GetObject")
    /\ config.ops.get_object.enabled
    /\ req.headers = NoHeaders
    /\ req.qs[1]["partNumber"] = <<>>

IsOk200(res) == res.tag = "Ok" /\ res.resp.status = 200
Is304(res) == res.tag = "ResponseErr" /\ res.resp.status = 304

\* C1: a plain GetObject whose key is not cached is forwarded to next exactly
\* once; when upstream answers 200 with body B and no cache-control the client
\* gets that 200 with body B and an entry holding B is stored under the
\* request's key; the same request made next, while the entry is still there,
\* is answered 200 with body B without a call of next.
C1_MissThenHit ==
    [][\A r \in Clients :
        /\ ( /\ CallStep(r)
             /\ PlainGet(rq'[r].req[1])
             /\ StoreGet(cache, KeyOf(rq'[r].req[1]), config, now) = <<>> )
           => /\ rq'[r].pc = "forwarded"
              /\ rq'[r].nextCalls = 1
              /\ rq'[r].fwd = rq'[r].req
        /\ ( /\ FinishStep(r)
             /\ PlainGet(rq[r].req[1])
             /\ rq[r].cached.state = "None"
             /\ IsOk200(rq[r].upres[1])
             /\ rq[r].upres[1].resp.headers.cache_control = <<>> )
           => /\ rq'[r].result = rq[r].upres
              /\ rq'[r].nextCalls = 1
              /\ KeyOf(rq[r].req[1]) \in DOMAIN cache'
              /\ cache'[KeyOf(rq[r].req[1])].value.data.bytes
                    = rq[r].upres[1].resp.body
        /\ ( /\ CallStep(r)
             /\ rq[r].pc = "done"
             /\ rq[r].inserted
             /\ rq'[r].req = rq[r].req
             /\ PlainGet(rq[r].req[1])
             /\ IsOk200(rq[r].result[1])
             /\ rq[r].result[1].resp.headers.cache_control = <<>>
             /\ StoreGet(cache, KeyOf(rq[r].req[1]), config, now) # <<>>
             /\ StoreGet(cache, KeyOf(rq[r].req[1]), config, now)[1].data.bytes
                   = rq[r].result[1].resp.body
             /\ StoreGet(cache, KeyOf(rq[r].req[1]), config, now)[1].data.meta
                   = rq[r].result[1].resp.headers )
           => /\ rq'[r].pc = "done"
              /\ rq'[r].nextCalls = 0
              /\ IsOk200(rq'[r].result[1])
              /\ rq'[r].result[1].resp.body = rq[r].result[1].resp.body
      ]_vars

\* A second call of a plain GetObject has been answered from the cache.
C1_Witness ==
    \E r \in Clients :
        /\ rq[r].pc = "done"
        /\ rq[r].n = 2
        /\ PlainGet(rq[r].req[1])
        /\ rq[r].looked
        /\ rq[r].nextCalls = 0
        /\ IsOk200(rq[r].result[1])
        /\ rq[r].result[1].resp.body = <<"h", "e", "l", "l">>

\* The request carries neither If-None-Match nor a client-supplied ETag.
NoClientConditional(req) ==
    req.headers["if-none-match"] = <<>> /\ req.headers["etag"] = <<>>

\* C2: when the lookup yields Stale for a request without a client conditional
\* header, the forwarded request is the request with If-None-Match set to the
\* cached ETag; when next then answers ResponseErr 304 the call returns Ok with
\* the cached 200 response.
C2_StaleRevalidates ==
    [][\A r \in Clients :
        /\ ( /\ CallStep(r)
             /\ rq'[r].cached.state = "Stale"
             /\ NoClientConditional(rq'[r].req[1]) )
           => /\ rq'[r].pc = "forwarded"
              /\ rq'[r].nextCalls = 1
              /\ rq'[r].fwd[1].headers["if-none-match"]
                    = rq'[r].cached.resp.headers.e_tag
              /\ \A h \in HNames \ {"if-none-match"} :
                    rq'[r].fwd[1].headers[h] = rq'[r].req[1].headers[h]
        /\ ( /\ FinishStep(r)
             /\ rq[r].cached.state = "Stale"
             /\ NoClientConditional(rq[r].req[1])
             /\ Is304(rq[r].upres[1]) )
           => /\ rq'[r].result = Some(Ok(rq[r].cached.resp))
              /\ rq[r].cached.resp.status = 200
      ]_vars

\* A stale GetObject entry was revalidated with 304 and its body returned.
C2_Witness ==
    \E r \in Clients :
        /\ rq[r].pc = "done"
        /\ rq[r].cached.state = "Stale"
        /\ NoClientConditional(rq[r].req[1])
        /\ rq[r].fwd[1].headers["if-none-match"] = Some(Abc)
        /\ Is304(rq[r].upres[1])
        /\ IsOk200(rq[r].result[1])
        /\ rq[r].result[1].resp.body = <<"h", "e", "l", "l">>

\* C3: when the entry is stale, the client's request carries If-None-Match
\* "abc" matching the cached ETag, and next answers ResponseErr 304, the call
\* returns that 304 and not the cached 200.
C3_ClientConditionalGets304 ==
    [][\A r \in Clients :
        ( /\ FinishStep(r)
          /\ rq[r].cached.state = "Stale"
          /\ rq[r].req[1].headers["if-none-match"] = Some(Abc)
          /\ rq[r].cached.resp.headers.e_tag = Some(Abc)
          /\ Is304(rq[r].upres[1]) )
        => /\ rq'[r].result[1].resp = rq[r].upres[1].resp
           /\ rq'[r].result[1].resp.status = 304
      ]_vars

HasRange(req) ==
    /\ req.op \in {Some("GetObject"), Some("HeadObject")}
    /\ req.headers["range"] # <<>>

\* C4: a GetObject or HeadObject request with a Range header is forwarded to
\* next once, unchanged; the call neither looks up nor inserts, its steps leave
\* the cache as it was, and the result of next is returned as it came.
C4_RangeBypasses ==
    [][\A r \in Clients :
        /\ (CallStep(r) /\ HasRange(rq'[r].req[1]))
           => /\ rq'[r].pc = "forwarded"
              /\ rq'[r].nextCalls = 1
              /\ rq'[r].fwd = rq'[r].req
              /\ ~rq'[r].looked
              /\ cache' = cache
        /\ (FinishStep(r) /\ HasRange(rq[r].req[1]))
           => /\ rq'[r].result = rq[r].upres
              /\ rq'[r].nextCalls = 1
              /\ ~rq'[r].inserted
              /\ cache' = cache
      ]_vars

\* A Range GetObject was answered by upstream while its object was cached.
C4_Witness ==
    \E r \in Clients :
        /\ rq[r].pc = "done"
        /\ rq[r].req[1].op = Some("GetObject")
        /\ HasRange(rq[r].req[1])
        /\ AsKey(ObjectKeyData("GetObject", Bkt, Obj, <<>>)) \in DOMAIN cache
        /\ IsOk200(rq[r].upres[1])
        /\ rq[r].result = rq[r].upres

\* C5: once the worker has processed the record of an object triple (bucket,
\* key, version id) and is at rest, the next GetObject request for that triple
\* is not answered from the cache: it calls upstream.
C5_InvalidatedThenUpstream ==
    [][\A r \in Clients :
        ( /\ CallStep(r)
          /\ handlers = {}
          /\ rq'[r].req[1].op = Some("GetObject")
          /\ ReqTriple(rq'[r].req[1]) \in processed )
        => /\ rq'[r].nextCalls = 1
           /\ rq'[r].pc = "forwarded"
      ]_vars

OtherOp(req) == req.op = <<>> \/ req.op[1] \notin CachedOps

CachedKinds == {"GetObject", "HeadObject", "ListObjects", "ListObjectVersions",
                "Bucket", "ListBuckets"}

\* C6: an entry is written only by the call of a request whose operation is
\* one of the seven cached operations, and every entry holds the payload of
\* one of them; a request with any other operation tag, or none, is forwarded
\* to next unchanged without a lookup and without an insert.
C6_OnlyCachedOps ==
    [][/\ \A k \in DOMAIN cache : cache[k].value.data.kind \in CachedKinds
       /\ (\E k \in DOMAIN cache' :
              k \notin DOMAIN cache \/ cache'[k].value # cache[k].value)
          => \E r \in Clients :
                /\ FinishStep(r)
                /\ rq'[r].inserted
                /\ ~OtherOp(rq[r].req[1])
       /\ \A r \in Clients :
            /\ (CallStep(r) /\ OtherOp(rq'[r].req[1]))
               => /\ rq'[r].pc = "forwarded"
                  /\ rq'[r].nextCalls = 1
                  /\ rq'[r].fwd = rq'[r].req
                  /\ ~rq'[r].looked
                  /\ cache' = cache
            /\ (FinishStep(r) /\ OtherOp(rq[r].req[1]))
               => /\ rq'[r].result = rq[r].upres
                  /\ ~rq'[r].inserted
                  /\ cache' = cache
      ]_vars

\* A PutObject went to upstream and back past a cache that holds entries.
C6_Witness ==
    \E r \in Clients :
        /\ rq[r].pc = "done"
        /\ rq[r].req[1].op = Some("PutObject")
        /\ IsOk200(rq[r].result[1])
        /\ ~rq[r].looked
        /\ DOMAIN cache # {}

\* The identity of a request as the client sent it: the fields of the fully
\* decoded input that key construction is to incorporate.
Identity(req) ==
    LET input == DecodeInput(req.op[1], IntoS3Request(req))[1]
    IN  [bucket |-> input.bucket, key |-> input.key,
         version_id |-> input.version_id, prefix |-> input.prefix,
         delimiter |-> input.delimiter]

\* C7: two requests of the same cached operation get the same key if and only
\* if bucket, object key, version id, prefix and delimiter are all equal,
\* also for values containing ", " and for fields sent as query parameters.
C7_KeyInjective ==
    ( /\ kin # <<>>
      /\ kin[1].op = kin[2].op
      /\ kout[1] # <<>>
      /\ kout[2] # <<>> )
    => (kout[1][1].key = kout[2][1].key <=> Identity(kin[1]) = Identity(kin[2]))

\* The weight of an entry as the store counts it, and as its length alone.
ClampedWeight(cr) ==
    IF cr.data.kind = "GetObject" THEN Min(Len(cr.data.bytes), U32Max) ELSE 1
LengthWeight(cr) ==
    IF cr.data.kind = "GetObject" THEN Len(cr.data.bytes) ELSE 1

C9_TtlIsAbsolute ==
    [][\A r \in Clients :
        (CallStep(r) /\ rq'[r].cached.state # "None")
        => LET v == cache[rq'[r].intent[1].key].value
           IN  v.ttl = <<>> \/ now <= v.updated_at + v.ttl[1]
      ]_vars

\* C10: a successful read at time r of an entry with TTI i sets the entry's
\* expiry to r + i; a successful read of an entry without TTI leaves its
\* expiry as it was.
C10_ReadSetsExpiry ==
    [][\A r \in Clients :
        (CallStep(r) /\ rq'[r].cached.state # "None")
        => LET k == rq'[r].intent[1].key
           IN  /\ k \in DOMAIN cache'
               /\ cache'[k].value = cache[k].value
               /\ IF cache[k].value.tti # <<>>
                  THEN cache'[k].expAt = Some(now + cache[k].value.tti[1])
                  ELSE cache'[k].expAt = cache[k].expAt
      ]_vars

\* An entry with a TTI and no TTL was read after its creation.
C10_Witness ==
    \E r \in Clients :
        /\ rq[r].pc = "done"
        /\ rq[r].cached.state = "Fresh"
        /\ rq[r].intent[1].key \in DOMAIN cache
        /\ LET e == cache[rq[r].intent[1].key]
           IN  /\ e.value.tti = Some(2)
               /\ e.value.ttl = <<>>
               /\ now > e.value.updated_at
               /\ e.expAt = Some(now + 2)

\* The payload kind an operation's response is stored as.
KindOf(op) ==
    CASE op = "GetObject" -> "GetObject"
      [] op = "HeadObject" -> "HeadObject"
      [] op \in {"ListObjects", "ListObjectsV2"} -> "ListObjects"
      [] op = "ListObjectVersions" -> "ListObjectVersions"
      [] op = "HeadBucket" -> "Bucket"
      [] op = "ListBuckets" -> "ListBuckets"

\* Same status, same encoded metadata and, for a GetObject, the same body.
SameResponse(op, a, b) ==
    /\ a.status = b.status
    /\ a.headers = b.headers
    /\ op = "GetObject" => a.body = b.body

InsertStep(r) == rq[r].pc = "built" /\ rq'[r].pc = "done"

\* The metadata and bytes an entry holds.
Payload(cr) == <<cr.data.meta, cr.data.bytes>>

\* The payloads of the responses upstream gives.
UpstreamPayloads ==
    {<<res.resp.ext[1].data, res.resp.body>> :
        res \in ConcUpstreamResults(ObjRequest("GetObject", NoQs, NoHeaders))}

C13_ChainIsComposition ==
    pl # <<>> =>
      IF pl[1].kind = "pair"
      THEN /\ pl[1].chain
                = LayerCall(pl[1].a, Req0, Then(pl[1].b, pl[1].next), pl[1].up)
           /\ pl[1].dyn
                = LayerCall(pl[1].a, Req0, Then(pl[1].b, pl[1].next), pl[1].up)
           /\ pl[1].identity = NextCall(pl[1].next, Req0, pl[1].up)
      ELSE pl[1].static = pl[1].dyn

\* A chain of a retrying stage and a marking stage ran in front of a failing
\* continuation: b and the continuation were invoked twice.
C13_Witness ==
    /\ pl # <<>>
    /\ pl[1].kind = "pair"
    /\ pl[1].a = Stage("a", "retry")
    /\ pl[1].b = Stage("b", "mark")
    /\ pl[1].next = <<Stage("n", "fail")>>
    /\ Len(pl[1].chain.trace) = 10
    /\ pl[1].chain.res = Internal("n")
    /\ pl[1].dyn = pl[1].chain

\* The entries of a middleware list that are stages, those among them that
\* answer without calling next, and the entries a request reaches.
StagesOf(list) == {i \in 1..Len(list) : list[i].t = "Stage"}
ShortCircuits(list) ==
    {i \in StagesOf(list) : list[i].beh \in {"short", "fail"}}
Reached(list, i) == \A j \in ShortCircuits(list) : j >= i
CallsNextOnce(list) == \A i \in StagesOf(list) : list[i].beh # "retry"

\* The positions of an invocation in a trace.
At(trace, ev, who) ==
    {k \in 1..Len(trace) : trace[k].ev = ev /\ trace[k].who = who}

\* C14: in the pipeline built from a middleware list whose stages call next
\* at most once, a stage is entered (once) exactly when no stage before it
\* short-circuits; stages are entered in list order and left in the reverse
\* order; the upstream client is called (once, after every stage was entered
\* and before any is left) exactly when no stage short-circuits.
C14_OrderPreserved ==
    (pl # <<>> /\ pl[1].kind = "list" /\ CallsNextOnce(pl[1].list)) =>
      LET list == pl[1].list
          tr == pl[1].dyn.trace
          enter(i) == At(tr, "enter", StageNames[i])
          leave(i) == At(tr, "leave", StageNames[i])
          send == At(tr, "send", "client")
      IN  /\ \A i \in StagesOf(list) :
                IF Reached(list, i)
                THEN Cardinality(enter(i)) = 1 /\ Cardinality(leave(i)) = 1
                ELSE enter(i) = {} /\ leave(i) = {}
          /\ \A i \in StagesOf(list), j \in StagesOf(list) :
                (i < j /\ Reached(list, j)) =>
                  \A ei \in enter(i), ej \in enter(j),
                     li \in leave(i), lj \in leave(j) :
                       ei < ej /\ ej < lj /\ lj < li
          /\ IF ShortCircuits(list) = {}
             THEN /\ Cardinality(send) = 1
                  /\ \A i \in StagesOf(list) :
                        \A e \in enter(i), l \in leave(i), s \in send :
                            e < s /\ s < l
             ELSE send = {}
          /\ pl[1].static.trace = tr

\* A request went through three marking stages to the upstream client and
\* its response back through them.
C14_Witness ==
    /\ pl # <<>>
    /\ pl[1].kind = "list"
    /\ pl[1].list = <<Stage("m1", "mark"), Stage("m2", "mark"),
                      Stage("m3", "mark")>>
    /\ pl[1].up = "ok"
    /\ Len(pl[1].dyn.trace) = 7
    /\ pl[1].dyn.trace[4] = Invocation("send", "client",
                                       <<"r", "m1", "m2", "m3">>)
    /\ pl[1].dyn.res = Ok(<<"r", "m1", "m2", "m3", "m3", "m2", "m1">>)

\* C15: when the pipeline returns RequestErr or ResponseErr the client is
\* written the carried response (status, headers, body) unchanged; when it
\* returns Internal the client is written status 500 with the short
\* diagnostic "Internal error" as body.
C15_ErrorsWrittenVerbatim ==
    wire # <<>> =>
      LET res == wire[1].returned
          written == wire[1].written
      IN  /\ res.tag \in {"RequestErr", "ResponseErr"}
               => written = HyperResponse(res.resp.status, res.resp.headers,
                                          res.resp.body)
          /\ res.tag = "Internal"
               => written.status = 500 /\ written.body = <<"Internal error">>

\* C15, the part that holds: an Internal error is written as status 500 with
\* the short diagnostic, and so is every other error.
C15_EveryErrorIs500 ==
    wire # <<>> =>
      (wire[1].returned.tag # "Ok"
         => /\ wire[1].written.status = 500
            /\ wire[1].written.body = SendErrorToString(wire[1].returned))

RouteClass(o) ==
    IF o.query_tag # <<>> /\ o.query_patterns # <<>> THEN 1
    ELSE IF o.query_tag # <<>> THEN 2
    ELSE IF o.query_patterns # <<>> THEN 3
    ELSE 4

\* a comes before b in the priority order: the lower class first, then the
\* longer lists first, then the lower name.
Precedes(a, b) ==
    LET ka == <<RouteClass(a), Len(b.query_patterns),
                Len(b.required_query_strings), Len(b.required_headers)>>
        kb == <<RouteClass(b), Len(a.query_patterns),
                Len(a.required_query_strings), Len(a.required_headers)>>
    IN  \/ \E i \in 1..4 : ka[i] < kb[i] /\ \A j \in 1..(i - 1) : ka[j] = kb[j]
        \/ ka = kb /\ NameRank(a.name) < NameRank(b.name)

\* The request satisfies the condition of the route.
Satisfies(o, qs, headers) ==
    IF RouteClass(o) < 4
    THEN /\ qs # <<>>
         /\ o.query_tag # <<>> => \E p \in qs[1] : p[1] = o.query_tag[1]
         /\ \A i \in DOMAIN o.query_patterns : o.query_patterns[i] \in qs[1]
    ELSE /\ o.required_query_strings # <<>> \/ o.required_headers # <<>>
         /\ \A i \in DOMAIN o.required_query_strings :
               qs # <<>> /\ \E p \in qs[1] : p[1] = o.required_query_strings[i]
         /\ \A i \in DOMAIN o.required_headers : o.required_headers[i] \in headers

CatchAll(o) ==
    /\ o.query_tag = <<>>
    /\ o.query_patterns = <<>>
    /\ o.required_query_strings = <<>>
    /\ o.required_headers = <<>>

\* C17: in a group of more than one route the resolved operation is the
\* route that comes first in the priority order (class 1, 2, 3, then routes
\* with required queries or headers; more patterns, more required queries,
\* more required headers, then the operation name) among those whose
\* condition the request satisfies; when none is satisfied it is the group's
\* only catch-all route, and UnknownOperation when the group has none.
C17_FirstInPriorityOrder ==
    route # <<>> =>
      LET x == route[1]
          group == {o \in x.ops : o.http_method = x.method /\ o.pattern = x.s3_path}
          sat == {o \in group : Satisfies(o, x.qs, x.headers)}
          all == {o \in group : CatchAll(o)}
      IN  Cardinality(group) > 1 =>
            /\ Cardinality(all) <= 1
            /\ IF sat # {}
               THEN \E o \in sat :
                      /\ \A p \in sat \ {o} : Precedes(o, p)
                      /\ x.result = [tag |-> "Ok", op |-> o.name,
                                     needs_full_body |-> o.needs_full_body]
               ELSE IF all # {}
               THEN \E o \in all :
                      x.result = [tag |-> "Ok", op |-> o.name,
                                  needs_full_body |-> o.needs_full_body]
               ELSE x.result = [tag |-> "UnknownOperation"]

\* A request that satisfies two routes of one class, told apart by the
\* operation name alone, has been resolved to the first of them.
C17_Witness ==
    /\ route # <<>>
    /\ route[1].method = "GET"
    /\ route[1].s3_path = "Object"
    /\ route[1].qs = Some({<<"acl", "">>, <<"tagging", "">>})
    /\ {o.name : o \in route[1].ops} \cap {"GetObjectAcl", "GetObjectTagging", "GetObject"}
          = {"GetObjectAcl", "GetObjectTagging", "GetObject"}
    /\ route[1].result = [tag |-> "Ok", op |-> "GetObjectAcl",
                          needs_full_body |-> FALSE]

\* C20: a webhook request whose body is read publishes exactly one event,
\* the S3 event when the body deserializes as a notification and otherwise
\* the Http event with the request's parts and its raw body; a request whose
\* body cannot be read publishes none; an event that is not an S3 event,
\* when the cache's worker receives it, changes no cache entry and starts no
\* handler.
C20_OneEventPerBody ==
    [][/\ (hook' # hook) =>
            LET req == hook'[1].req
                json == /\ Len(req.body) >= 2
                        /\ req.body[1].text = "{Records:["
                        /\ req.body[Len(req.body)].text = "]}"
                        /\ \A i \in 2..(Len(req.body) - 1) :
                              req.body[i].text = "record"
                expected ==
                    IF json
                    THEN [tag |-> "S3",
                          records |-> [i \in 1..(Len(req.body) - 2) |->
                                         req.body[i + 1].rec[1]]]
                    ELSE [tag |-> "Http", records |-> <<>>,
                          parts |-> req.parts, body |-> req.body]
            IN  IF req.readable
                THEN /\ published' = published + 1
                     /\ worker = "running" =>
                           /\ Len(chan') = Len(chan) + 1
                           /\ chan'[Len(chan')].event = expected
                ELSE published' = published /\ chan' = chan
       /\ (Len(chan') < Len(chan) /\ Head(chan).event.tag # "S3") =>
            cache' = cache /\ handlers' = handlers]_vars

\* The worker has received the Http event of a body that is no notification
\* while the cache holds an entry.
C20_Witness ==
    /\ hook # <<>>
    /\ hook[1].event # <<>>
    /\ hook[1].event[1].tag = "Http"
    /\ hook[1].event[1].body # <<>>
    /\ published = 1
    /\ chan = <<>>
    /\ worker = "running"
    /\ DOMAIN cache # {}

\* C21: the webhook answers 200 exactly when the body was read and the
\* broadcast succeeded, and 500 otherwise; a failed request publishes nothing;
\* with no worker subscribed a publish still answers 200 and changes nothing
\* but the count of published events.
C21_ReplyFollowsBroadcast ==
    [][(hook' # hook) =>
          LET h == hook'[1]
          IN  /\ h.status \in {200, 500}
              /\ (h.status = 200) <=> (h.req.readable /\ ~closed)
              /\ (h.status = 200) <=> (h.sent = "Ok")
              /\ (h.status = 200) => published' = published + 1
              /\ (h.status = 500) =>
                    UNCHANGED <<CacheVars, pl, route, wire, SysVars>>
              /\ (h.status = 200 /\ worker # "running") =>
                    UNCHANGED <<chan, cache, handlers, processed, worker>>]_vars

\* A readable notification was published with no worker subscribed and
\* answered 200, and the channel was closed afterwards.
C21_Witness ==
    /\ hook # <<>>
    /\ hook[1].status = 200
    /\ hook[1].event # <<>>
    /\ worker = "none"
    /\ published = 1
    /\ chan = <<>>
    /\ closed

\* The request of a call carries none of the fields that make it pass by.
PlainRequest(req) ==
    /\ \A n \in DOMAIN req.qs[1] : req.qs[1][n] = <<>>
    /\ \A n \in DOMAIN req.headers : req.headers[n] = <<>>

\* The setting of CacheOpsConfig an operation is configured by.
SettingOf(op) ==
    CASE op = "GetObject" -> "get_object"
      [] op = "HeadObject" -> "head_object"
      [] op \in {"ListObjects", "ListObjectsV2"} -> "list_objects"
      [] op = "ListObjectVersions" -> "list_object_versions"
      [] op = "HeadBucket" -> "head_bucket"
      [] op = "ListBuckets" -> "list_buckets"

\* C18: a request that carries partNumber (GetObject), expected-bucket-owner
\* (HeadObject, ListObjects, ListObjectsV2, ListObjectVersions, HeadBucket),
\* key-marker or max-keys (ListObjectVersions), or max-keys or start-after
\* (ListObjectsV2), as a header or as a query parameter, yields no cache
\* intent: it is forwarded without a lookup and its response is not inserted.
C18_FieldsBypassCache ==
    \A r \in DOMAIN rq :
      rq[r].req # <<>> =>
        LET req == rq[r].req[1]
            op == req.op[1]
            q(n) == req.qs[1][n] # <<>>
            carries ==
              \/ op = "GetObject" /\ q("partNumber")
              \/ /\ op \in {"HeadObject", "ListObjects", "ListObjectsV2",
                             "ListObjectVersions", "HeadBucket"}
                 /\ req.headers["x-amz-expected-bucket-owner"] # <<>>
              \/ op = "ListObjectVersions" /\ (q("key-marker") \/ q("max-keys"))
              \/ op = "ListObjectsV2" /\ (q("max-keys") \/ q("start-after"))
        IN  carries =>
              /\ rq[r].intent = <<>>
              /\ ~rq[r].looked
              /\ ~rq[r].inserted
              /\ rq[r].fwd = Some(req)

\* C18, the part that holds: a request that carries the field as a header
\* yields no cache intent.
C18_HeaderFieldBypassesCache ==
    \A r \in DOMAIN rq :
      (rq[r].req # <<>> /\ rq[r].req[1].headers["x-amz-expected-bucket-owner"] # <<>>)
        => rq[r].intent = <<>> /\ ~rq[r].looked /\ ~rq[r].inserted

\* C19: every request of an operation the configuration disables is
\* forwarded to next as it is, without a lookup, and its response is not
\* inserted, so that the cache never holds an entry of the operation's kind;
\* a plain request of an enabled operation is looked up, and the response
\* next returns for it is inserted.
C19_DisabledOpBypassesCache ==
    \A r \in DOMAIN rq :
      rq[r].req # <<>> =>
        LET req == rq[r].req[1]
            op == req.op[1]
        IN  IF ~config.ops[SettingOf(op)].enabled
            THEN /\ ~rq[r].looked
                 /\ ~rq[r].inserted
                 /\ rq[r].fwd = Some(req)
                 /\ rq[r].pc = "done" => rq[r].result = rq[r].upres
                 /\ \A k \in DOMAIN cache : cache[k].value.data.kind # KindOf(op)
            ELSE PlainRequest(req) =>
                 /\ rq[r].looked
                 /\ (rq[r].pc = "done" /\ rq[r].upres # <<>>
                       /\ rq[r].upres[1].tag = "Ok") => rq[r].inserted

\* With list_objects disabled, a ListObjectsV2 request has been answered by
\* next while the cache holds the entry of an enabled operation.
C19_Witness ==
    /\ ~config.ops["list_objects"].enabled
    /\ \E r \in DOMAIN rq :
         /\ rq[r].pc = "done"
         /\ rq[r].req[1].op = Some("ListObjectsV2")
         /\ rq[r].upres # <<>>
         /\ rq[r].upres[1].tag = "Ok"
         /\ rq[r].nextCalls = 1
    /\ DOMAIN cache # {}

\* C22: once the server task has received the termination signal the front
\* server accepts no connection; a finished server has answered every
\* connection it accepted; a webhook that was started is stopped by then; and
\* stop() returns only when the server task has finished.
C22_GracefulShutdown ==
    [][/\ (srv.term_sig = "received") => srv'.accepted = srv.accepted
       /\ (srv'.front = "finished") =>
             /\ srv'.answered = srv'.accepted
             /\ srv'.webhook \in {"none", "finished"}
       /\ (srv'.stop = "returned") => srv'.front = "finished"]_vars

\* What the server does keep on shutdown: in-flight requests are answered,
\* the webhook is stopped before the front server drains, and stop() returns
\* after the server task.
C22_DrainsAndJoins ==
    /\ (srv.front = "finished") =>
          /\ srv.answered = srv.accepted
          /\ srv.webhook \in {"none", "finished"}
    /\ (srv.front = "draining") => srv.webhook \in {"none", "finished"}
    /\ (srv.stop = "returned") => srv.front = "finished"

\* stop() has returned from a server that accepted a connection while its
\* webhook was being stopped.
C22_LateAccept ==
    /\ srv.stop = "returned"
    /\ srv.late > 0

C24_TagAndCellStable ==
    [][(env # <<>> /\ env' # <<>>) =>
          LET e == env[1]
              f == env'[1]
              get == f.gets = e.gets + 1
          IN  /\ (e.at = "stage") =>
                    /\ f.req.op = e.req.op
                    /\ f.req.op # <<>>
              /\ f.writes <= 1
              /\ (e.data # <<>>) =>
                    /\ f.data = e.data
                    /\ f.decodes = e.decodes
                    /\ get => f.last = Some(Some(e.data[1].meta))
              /\ (get /\ e.data = <<>>) =>
                    /\ f.decodes = e.decodes + 1
                    /\ (f.last = Some(<<>>)) <=> (f.data = <<>>)
                    /\ (f.data # <<>>) => f.last = Some(Some(f.data[1].meta))]_vars

\* A first call failed on a Range header that does not parse, a second one
\* decoded after a stage had replaced the header, and a third returned the
\* same metadata although the header had been removed meanwhile.
C24_Witness ==
    /\ env # <<>>
    /\ env[1].at = "stage"
    /\ env[1].req.op = Some("GetObject")
    /\ env[1].gets = 3
    /\ env[1].decodes = 2
    /\ env[1].writes = 1
    /\ env[1].req.headers["range"] = <<>>
    /\ env[1].data # <<>>
    /\ env[1].data[1].meta.range # <<>>
    /\ env[1].last = Some(Some(env[1].data[1].meta))

\* C25: a missing extension or operation gives Internal; an input that does
\* not decode gives RequestErr with the response of its S3 error; an error
\* from upstream gives ResponseErr with the response of that error; an output
\* that does not encode gives Internal.
C25_ClientErrorMapping ==
    sent # <<>> =>
       LET c == sent[1].case
           res == sent[1].res
           typed == c.has_ext /\ c.op # <<>>
       IN  /\ ~typed => res.tag = "Internal"
           /\ (typed /\ c.input # <<>>) =>
                 res = RequestErr(ResponseFromS3Error(c.input[1]))
           /\ (typed /\ c.input = <<>> /\ c.upstream # <<>>) =>
                 res = ResponseErr(ResponseFromS3Error(c.upstream[1]))
           /\ (typed /\ c.input = <<>> /\ c.upstream = <<>>
                 /\ c.output # <<>>) => res.tag = "Internal"

\* The mappings the client does make: the first three as stated, and an
\* output that does not encode as a ResponseErr with the response of its S3
\* error.
C25_OutputErrIsResponseErr ==
    sent # <<>> =>
       LET c == sent[1].case
           res == sent[1].res
           typed == c.has_ext /\ c.op # <<>>
       IN  /\ ~typed => res.tag = "Internal"
           /\ (typed /\ c.input # <<>>) =>
                 res = RequestErr(ResponseFromS3Error(c.input[1]))
           /\ (typed /\ c.input = <<>> /\ c.upstream # <<>>) =>
                 res = ResponseErr(ResponseFromS3Error(c.upstream[1]))
           /\ (typed /\ c.input = <<>> /\ c.upstream = <<>>
                 /\ c.output # <<>>) =>
                 res = ResponseErr(ResponseFromS3Error(c.output[1]))

\* C26: started where files can be written and the environment loads, with a
\* path that is missing or a regular file: --regenerate leaves a generated
\* file at the path and its configuration is the one used; otherwise an
\* existing file is left as it is and its content is what is loaded;
\* otherwise --generate-if-missing generates the file and uses it; otherwise,
\* and without --config-file, the built-in defaults are used and the path is
\* left as it was.
C26_ConfigFileChoice ==
    (fs.out # <<>> /\ fs.before.writable /\ fs.before.dotenv
       /\ fs.before.path \in {"missing", "file"}) =>
       LET args == fs.args[1]
           out == fs.out[1]
           b == fs.before
           generated == /\ fs.f.path = "file"
                        /\ fs.f.content = Some("generated")
                        /\ out = [tag |-> "Ok", config |-> "generated"]
           builtin == /\ fs.f = b
                      /\ out = [tag |-> "Ok", config |-> "builtin"]
       IN  IF ~args.config_file THEN builtin
           ELSE IF args.regenerate THEN generated
           ELSE IF b.path = "file"
           THEN /\ fs.f = b
                /\ out = IF b.content = Some("invalid")
                         THEN [tag |-> "Err", msg |-> "load"]
                         ELSE [tag |-> "Ok", config |-> b.content[1]]
           ELSE IF args.generate_if_missing THEN generated
           ELSE builtin

\* --regenerate was given with the path of a file holding another
\* configuration: the file now holds the generated one, which is used.
C26_Witness ==
    /\ fs.out = Some([tag |-> "Ok", config |-> "generated"])
    /\ fs.args[1].config_file
    /\ fs.args[1].regenerate
    /\ fs.before.path = "file"
    /\ fs.before.content = Some("custom")
    /\ fs.f.content = Some("generated")

\* C27: a lookup that finds an entry whose response grants no freshness
\* lifetime (no Cache-Control) is Fresh: the call ends at once with the cached
\* response, next is not called, nothing is forwarded and the entry keeps its
\* value, however long ago it was stored.
C27_ZeroLifetimeIsFresh ==
    [][\A r \in Clients :
        ( /\ CallStep(r)
          /\ rq'[r].intent # <<>>
          /\ StoreGet(cache, rq'[r].intent[1].key, config, now) # <<>>
          /\ cache[rq'[r].intent[1].key].value.data.meta.cache_control = <<>> )
        => LET k == rq'[r].intent[1].key
           IN  /\ rq'[r].cached =
                     [state |-> "Fresh", resp |-> ToResponse(cache[k].value)]
               /\ rq'[r].pc = "done"
               /\ rq'[r].result = Some(Ok(ToResponse(cache[k].value)))
               /\ rq'[r].nextCalls = 0
               /\ rq'[r].fwd = <<>>
               /\ k \in DOMAIN cache'
               /\ cache'[k].value = cache[k].value
      ]_vars

\* An entry without Cache-Control was served from the cache two time units
\* after it was stored.
C27_Witness ==
    \E r \in Clients :
        /\ rq[r].pc = "done"
        /\ rq[r].cached.state = "Fresh"
        /\ rq[r].nextCalls = 0
        /\ rq[r].intent[1].key \in DOMAIN cache
        /\ LET e == cache[rq[r].intent[1].key]
           IN  /\ e.value.data.meta.cache_control = <<>>
               /\ now = e.value.updated_at + 2
               /\ rq[r].result = Some(Ok(ToResponse(e.value)))

\* The stored response grants a freshness lifetime and the entry is at least
\* that old: the policy reports it stale.
PolicyStale(value, t) ==
    /\ value.data.meta.cache_control # <<>>
    /\ value.data.meta.cache_control[1] > 0
    /\ t - value.updated_at >= value.data.meta.cache_control[1]

C29_InsertSetsExpiry ==
    [][\A r \in Clients :
        (FinishStep(r) /\ rq'[r].inserted)
        => LET k == rq[r].intent[1].key
               ttl == cache'[k].value.ttl
           IN  /\ cache'[k].lastMod = now
               /\ cache'[k].value.updated_at = now
               /\ ttl = rq[r].intent[1].ttl
               /\ IF ttl # <<>> THEN cache'[k].expAt = Some(now + ttl[1])
                  ELSE IF k \in DOMAIN cache
                  THEN cache'[k].expAt = cache[k].expAt
                  ELSE cache'[k].expAt = <<>>
      ]_vars

\* A stale entry with TTL 2 was replaced one time unit after it was created:
\* it now expires two time units after the replacement.
C29_Witness ==
    \E r \in Clients :
        /\ rq[r].pc = "done"
        /\ rq[r].inserted
        /\ rq[r].cached.state = "Stale"
        /\ rq[r].intent[1].key \in DOMAIN cache
        /\ LET e == cache[rq[r].intent[1].key]
           IN  /\ e.value.ttl = Some(2)
               /\ e.lastMod = 1
               /\ e.expAt = Some(3)

\* C30: when next returns an error that is not a 304 ResponseErr answering a
\* stale hit, the call returns that error, inserts nothing and leaves the
\* cache as it was.
C30_ErrorsPassThrough ==
    [][\A r \in Clients :
        ( /\ FinishStep(r)
          /\ rq[r].upres[1].tag # "Ok"
          /\ ~(Is304(rq[r].upres[1]) /\ rq[r].cached.state = "Stale") )
        => /\ rq'[r].result = rq[r].upres
           /\ ~rq'[r].inserted
           /\ cache' = cache
      ]_vars

\* next answered 404 to the revalidation of a stale entry: the call returned
\* the 404 and the entry is still in the store.
C30_Witness ==
    \E r \in Clients :
        /\ rq[r].pc = "done"
        /\ rq[r].cached.state = "Stale"
        /\ rq[r].upres = Some(ResponseErr(MkResponse(404, NoMeta, <<>>, <<>>)))
        /\ rq[r].result = rq[r].upres
        /\ rq[r].intent[1].key \in DOMAIN cache


\* The key string of an object-scoped entry, written out.
ObjectKeyString(kind, rec) ==
    <<kind, " ">> \o rec.bucket \o <<",", " ">> \o rec.key \o <<",", " ">>
        \o rec.version_id

\* A step of the worker's handlers (receiving an event is not one).
HandlerStep == handlers' # handlers /\ chan' = chan

\* C31: a step of a handler on the record of (bucket, key, version_id) removes
\* nothing but the keys "GetObject bucket, key, version_id" and "HeadObject
\* bucket, key, version_id": every entry under another key (listings, buckets,
\* other objects, the same object under another version id) is still there
\* and unchanged, and no entry is added.
C31_OnlyTwoKeysRemoved ==
    [][HandlerStep =>
        \E h \in handlers :
          LET rec == Head(h.records)
              keys == {ObjectKeyString("GetObject", rec),
                       ObjectKeyString("HeadObject", rec)}
          IN  /\ DOMAIN cache' \subseteq DOMAIN cache
              /\ \A k \in DOMAIN cache \ keys :
                    k \in DOMAIN cache' /\ cache'[k] = cache[k]
      ]_vars

\* The cache held the object, another object and a listing; the worker has
\* processed a record of the object: its entry is gone, the other two are not.
C31_Witness ==
    \E r \in Clients :
        /\ rq[r].pc = "done" /\ rq[r].inserted
        /\ rq[r].req[1] = ObjRequest("GetObject", NoQs, NoHeaders)
        /\ rq[r].intent[1].key \notin DOMAIN cache
        /\ <<Bkt, Obj, <<>>>> \in processed
        /\ handlers = {} /\ worker = "running"
        /\ AsKey(ObjectKeyData("GetObject", Bkt, Obj2, <<>>)) \in DOMAIN cache
        /\ AsKey(ListKeyData("ObjectList", Bkt, <<>>, <<>>)) \in DOMAIN cache


\* The keys of the records the worker has been given and has not dealt with
\* yet: those of the events in its receiver, and for each running handler
\* what is left of its current record and its later records.
RECURSIVE RecordKeys(_)
RecordKeys(records) ==
    IF records = <<>> THEN {}
    ELSE {ObjectKeyString("GetObject", Head(records)),
          ObjectKeyString("HeadObject", Head(records))}
         \cup RecordKeys(Tail(records))

RECURSIVE QueuedKeys(_)
QueuedKeys(q) ==
    IF q = <<>> THEN {}
    ELSE (IF Head(q).event.tag = "S3" THEN RecordKeys(Head(q).event.records)
          ELSE {})
         \cup QueuedKeys(Tail(q))

PendingKeys ==
    QueuedKeys(chan)
    \cup UNION {RecordKeys(Tail(h.records))
                \cup (IF h.step = "get"
                      THEN {ObjectKeyString("GetObject", Head(h.records))}
                      ELSE {})
                \cup {ObjectKeyString("HeadObject", Head(h.records))} :
                h \in handlers}

\* The cache as it is once everything delivered so far has been processed.
Outcome32 == [k \in DOMAIN cache \ PendingKeys |-> cache[k]]

Queued(i) == \E j \in 1..Len(chan) : chan[j].id = i
Handling(i) == \E h \in handlers : h.id = i

\* C33: the worker stays alive and eventually processes what it receives:
\* whatever is in its receiver (an event or the notice of an overflow) is
\* eventually taken out of it, and every event a handler was started for is
\* eventually handled to the end with the worker still running.
C33_EveryEventProcessed ==
    /\ (chan # <<>>) ~> (chan = <<>>)
    /\ \A i \in 1..MaxLive :
          Handling(i) ~> (~Handling(i) /\ worker = "running")

\* What holds of it: behaviours in which the worker never panics satisfy the
\* statement, and the notice of an overflow is taken out of the receiver
\* without a handler being started and without harm to the worker.
C33_LiveUnlessPanicked ==
    /\ <>(worker = "panicked") \/ C33_EveryEventProcessed
    /\ [][(chan # <<>> /\ IsNotice(Head(chan)) /\ published' = published
           /\ chan' # chan)
          => (chan' = Tail(chan) /\ handlers' = handlers /\ worker' = worker)
       ]_vars

\* The worker has panicked on a record and an event published before the
\* panic is left in its receiver.
C33_Stuck ==
    /\ worker = "panicked"
    /\ chan # <<>>
    /\ ~IsNotice(Head(chan))


\* C34: when the worker has processed the event of an object after a
\* GetObject call for it had fetched its response and before that call
\* inserts, then with both completed the cache does not hold the response
\* the call fetched.
C34_NoStaleInsert ==
    [][\A r \in Clients :
        ( /\ InsertStep(r)
          /\ rq[r].req[1].op = Some("GetObject")
          /\ ReqTriple(rq[r].req[1]) \in processed
          /\ handlers = {} /\ chan = <<>> )
        => \/ rq[r].intent[1].key \notin DOMAIN cache'
           \/ Payload(cache'[rq[r].intent[1].key].value)
                 # <<rq[r].upres[1].resp.ext[1].data, rq[r].upres[1].resp.body>>
      ]_vars

\* What holds: an object the worker has invalidated, with no insert for it
\* completed since, has no GetObject entry.
C34_InvalidatedAndNotReinserted ==
    \A t \in processed :
        AsKey(ObjectKeyData("GetObject", t[1], t[2], t[3])) \notin DOMAIN cache

\* The state the race ends in: the event was published after the response
\* had come back and has been processed, the call has completed, and the
\* cache holds the response fetched before the event.
C34_StaleEntry ==
    \E r \in Clients :
        /\ rq[r].pc = "done" /\ rq[r].inserted /\ rq[r].n = 1
        /\ published = 1 /\ chan = <<>> /\ handlers = {} /\ worker = "running"
        /\ Payload(cache[rq[r].intent[1].key].value)
              = <<rq[r].upres[1].resp.ext[1].data, rq[r].upres[1].resp.body>>


\* The step in which caller r's call is answered from the cache.
HitStep(r) ==
    /\ rq[r].pc \in {"idle", "done"} /\ rq'[r].pc = "done"
    /\ rq'[r].n # rq[r].n
    /\ rq'[r].cached.state = "Fresh"

StoredOp(cr) ==
    CASE cr.data.kind = "ListObjects" ->
           IF cr.data.either = "Left" THEN "ListObjects" ELSE "ListObjectsV2"
      [] cr.data.kind = "Bucket" -> "HeadBucket"
      [] OTHER -> cr.data.kind

\* C36: a call answered from the cache is answered from an entry that holds
\* the output of the call's own operation.
C36_SameOperation ==
    [][\A r \in Clients :
        HitStep(r) =>
          StoredOp(cache[rq'[r].intent[1].key].value) = rq'[r].req[1].op[1]
      ]_vars

\* What holds: the entry is of the payload kind of the call's operation, and
\* of its very operation for every operation but the two listings that share
\* a kind and a key.
C36_SameKind ==
    [][\A r \in Clients :
        HitStep(r) =>
          LET cr == cache[rq'[r].intent[1].key].value
              op == rq'[r].req[1].op[1]
          IN  /\ cr.data.kind = KindOf(op)
              /\ op \notin {"ListObjects", "ListObjectsV2"} => StoredOp(cr) = op
      ]_vars

\* A ListObjectsV2 call was answered from the entry a ListObjects call stored.
C36_CrossServed ==
    \E r \in Clients :
        /\ rq[r].pc = "done" /\ rq[r].n = 2
        /\ rq[r].req[1].op = Some("ListObjectsV2")
        /\ rq[r].cached.state = "Fresh" /\ rq[r].nextCalls = 0
        /\ cache[rq[r].intent[1].key].value.data.either = "Left"


\* The step that ends caller r's call after next has returned a GetObject
\* response whose body cannot be read to the end.
BrokenBodyStep(r) ==
    /\ rq[r].pc = "returned" /\ rq'[r].pc # "returned"
    /\ rq[r].intent # <<>>
    /\ rq[r].req[1].op = Some("GetObject")
    /\ rq[r].upres[1].tag = "Ok"
    /\ StoreAllUnlimited(rq[r].upres[1].resp.body) = <<>>

\* C37: when the body of the upstream GetObject response cannot be read, the
\* call ends with a response or a SendError, does not panic and inserts
\* nothing under the key.
C37_ReadFailureIsReturned ==
    [][\A r \in Clients :
        BrokenBodyStep(r) =>
          /\ rq'[r].pc = "done"
          /\ rq'[r].result # <<>>
          /\ rq'[r].result[1].tag
                \in {"Ok", "ResponseErr", "RequestErr", "Internal"}
          /\ ~rq'[r].inserted
          /\ cache' = cache
      ]_vars

\* What holds: nothing is inserted and the cache is as it was.
C37_NothingInserted ==
    [][\A r \in Clients :
        BrokenBodyStep(r) => (~rq'[r].inserted /\ cache' = cache)
      ]_vars

\* The call has panicked on a body it could not read; it has no result.
C37_CallPanicked ==
    \E r \in Clients :
        /\ rq[r].pc = "panicked"
        /\ rq[r].result = <<>>
        /\ rq[r].upres[1].resp.body = <<"h", ReadError>>
        /\ rq[r].intent[1].key \notin DOMAIN cache


\* Caller r's call has been answered with the cached response after next
\* returned 304 to the revalidation the layer had made conditional.
ServedAfter304(slot) ==
    /\ slot.pc = "done"
    /\ slot.cached.state = "Stale"
    /\ ~slot.has_etag
    /\ Is304(slot.upres[1])

\* C38: the step that serves the cached response after a 304 leaves the
\* store as it was (the entry's payload, updated_at, ttl and tti included)
\* and inserts nothing; and the next call for the same key, with the entry
\* still held, finds it stale again and is forwarded as a revalidation.
C38_Served304LeavesEntry ==
    [][\A r \in Clients :
        /\ ( /\ FinishStep(r)
             /\ ServedAfter304(rq'[r]) )
           => /\ cache' = cache
              /\ ~rq'[r].inserted
              /\ rq'[r].result = Some(Ok(rq[r].cached.resp))
        /\ ( /\ CallStep(r)
             /\ ServedAfter304(rq[r])
             /\ rq'[r].intent = rq[r].intent
             /\ StoreGet(cache, rq[r].intent[1].key, config, now) # <<>> )
           => /\ rq'[r].cached.state = "Stale"
              /\ rq'[r].pc = "forwarded"
              /\ rq'[r].nextCalls = 1
              /\ rq'[r].fwd[1].headers["if-none-match"] # <<>>
              /\ cache'[rq[r].intent[1].key].value
                    = cache[rq[r].intent[1].key].value
      ]_vars

\* The second call for an object found its entry stale, next answered 304
\* and the call returned the stored response; the entry is the one the first
\* call stored.
C38_Witness ==
    \E r \in Clients :
        /\ ServedAfter304(rq[r])
        /\ rq[r].n = 2
        /\ rq[r].result = Some(Ok(rq[r].cached.resp))
        /\ ~rq[r].inserted
        /\ rq[r].intent[1].key \in DOMAIN cache
        /\ cache[rq[r].intent[1].key].value.updated_at = 0
        /\ cache[rq[r].intent[1].key].lastMod = 0
        /\ now > 0


\* The time of the last successful read of a stored entry that carries a
\* per-item tti and no per-item ttl: the read set the per-item expiration to
\* its own time plus the tti.
LastRead(e) == e.expAt[1] - e.value.tti[1]
WasRead(e) == e.value.ttl = <<>> /\ e.value.tti # <<>> /\ e.expAt # <<>>

\* A lookup of an entry that was last read less than the global tti ago, and
\* whose own expiration has not come, finds it.
IdleTimeoutStep(r) ==
    LET k == rq'[r].intent[1].key
    IN  (/\ CallStep(r)
         /\ rq'[r].intent # <<>>
         /\ k \in DOMAIN cache
         /\ config.tti # <<>>
         /\ WasRead(cache[k])
         /\ now < cache[k].expAt[1]
         /\ now < LastRead(cache[k]) + config.tti[1])
        => rq'[r].cached.state # "None"

\* A lookup finds no entry that was written a global ttl or longer ago.
TtlStaysStep(r) ==
    (/\ CallStep(r)
     /\ rq'[r].cached.state # "None"
     /\ config.ttl # <<>>)
    => now < cache[rq'[r].intent[1].key].lastMod + config.ttl[1]

\* C39: a configured global tti is an idle timeout, so an entry that is read
\* at intervals shorter than tti is not expired by it, and a configured global
\* ttl remains the absolute lifetime of an entry when a global tti is
\* configured too.
C39_TtiIsIdleTimeoutAndTtlStays ==
    [][\A r \in Clients : IdleTimeoutStep(r) /\ TtlStaysStep(r)]_vars

====
